---- MODULE Spec2Model ----
(***************************************************************************)
(* Resume NER backend: the BIO decoder and deduplicator of                 *)
(* extract_resume_entities (ner_model.py, ner_model_optimized.py) and the  *)
(* process-wide model lifecycle of ner_model_optimized.py                  *)
(* (load_model_lazy, unload_model) together with the /minedata caller.     *)
(*                                                                         *)
(* Python strings are TLA+ strings; they are taken apart with Len, SubSeq  *)
(* and \o, one character at a time, the way the str methods work.          *)
(***************************************************************************)
EXTENDS Integers, Sequences, FiniteSets, TLC

\* ------------------------------------------------------------------------
\* Bounds
\* ------------------------------------------------------------------------
\* longest drawn word / label sequence
MaxWords == 3

\* Python's None (globals and current_entity)
None == "<None>"

\* ------------------------------------------------------------------------
\* str helpers
\* ------------------------------------------------------------------------
Char(s, i) == SubSeq(s, i, i)

\* str.isspace on one character (the characters that occur here)
IsSpace(c) == c \in {" ", "\t", "\n", "\r", "\f"}

UpperAlphabet == "ABCDEFGHIJKLMNOPQRSTUVWXYZ"
LowerAlphabet == "abcdefghijklmnopqrstuvwxyz"

LowerChar(c) ==
    IF \E i \in 1..Len(UpperAlphabet) : Char(UpperAlphabet, i) = c
    THEN Char(LowerAlphabet, CHOOSE i \in 1..Len(UpperAlphabet) : Char(UpperAlphabet, i) = c)
    ELSE c

\* str.lower()
RECURSIVE Lower(_)
Lower(s) ==
    IF Len(s) = 0 THEN ""
    ELSE LowerChar(Char(s, 1)) \o Lower(SubSeq(s, 2, Len(s)))

RECURSIVE LStrip(_)
LStrip(s) ==
    IF Len(s) > 0 /\ IsSpace(Char(s, 1)) THEN LStrip(SubSeq(s, 2, Len(s))) ELSE s

RECURSIVE RStripSpace(_)
RStripSpace(s) ==
    IF Len(s) > 0 /\ IsSpace(Char(s, Len(s))) THEN RStripSpace(SubSeq(s, 1, Len(s) - 1)) ELSE s

\* str.strip()
Strip(s) == RStripSpace(LStrip(s))

\* a plausible slip: only one trailing character of the set is removed
RStripOnce(s, chars) ==
    IF Len(s) > 0 /\ Char(s, Len(s)) \in chars THEN SubSeq(s, 1, Len(s) - 1) ELSE s

\* str.rstrip(chars): every trailing character that is in chars is removed
RECURSIVE RStrip(_, _)
RStrip(s, chars) ==
    IF Len(s) > 0 /\ Char(s, Len(s)) \in chars
    THEN RStrip(SubSeq(s, 1, Len(s) - 1), chars)
    ELSE s

\* sep.join(words)
RECURSIVE Join(_, _)
Join(sep, ws) ==
    IF Len(ws) = 0 THEN ""
    ELSE IF Len(ws) = 1 THEN ws[1]
    ELSE ws[1] \o sep \o Join(sep, Tail(ws))

\* label.startswith(prefix)
StartsWith(s, prefix) ==
    Len(s) >= Len(prefix) /\ SubSeq(s, 1, Len(prefix)) = prefix

\* label[2:]
From2(s) == SubSeq(s, 3, Len(s))

\* Python truthiness of current_entity (None and '' are falsy)
Truthy(x) == x # None /\ x # ""

\* ------------------------------------------------------------------------
\* Label vocabulary
\* ------------------------------------------------------------------------
\* slip: the college type is spelled with an underscore
unique_labels_Underscore ==
    <<"COLLEGE_NAME", "COMPANY", "DEGREE", "DESIGNATION", "EMAIL", "LOCATION", "NAME", "SKILLS">>

unique_labels ==
    <<"COLLEGE NAME", "COMPANY", "DEGREE", "DESIGNATION", "EMAIL", "LOCATION", "NAME", "SKILLS">>

labels ==
    <<"O">> \o [i \in 1..Len(unique_labels) |-> "B-" \o unique_labels[i]]
            \o [i \in 1..Len(unique_labels) |-> "I-" \o unique_labels[i]]

Range(f) == {f[i] : i \in DOMAIN f}

\* ------------------------------------------------------------------------
\* dict helpers (a dict is a function on its key set)
\* ------------------------------------------------------------------------
EmptyDict == [k \in {} |-> <<>>]

\* if k not in d: d[k] = [] ; d[k].append(v)
DictAppend(d, k, v) ==
    IF k \in DOMAIN d THEN [d EXCEPT ![k] = Append(@, v)]
    ELSE d @@ (k :> <<v>>)

\* ------------------------------------------------------------------------
\* State of one run of the grouping and deduplication part of
\* extract_resume_entities
\* ------------------------------------------------------------------------
VARIABLES
    tokens,                    \* the words (re.finditer(r'\S+'), truncated)
    predicted_labels,          \* one label per word
    dpc,                       \* position: "group", "dedupe", "done"
    di,                        \* index of the next (token, label) pair of the zip
    current_entity,            \* type of the open span, or None
    current_text,              \* words of the open span
    entities_with_duplicates,  \* type -> raw span strings
    entities                   \* type -> unique cleaned strings

dvars == <<tokens, predicted_labels, dpc, di, current_entity, current_text,
           entities_with_duplicates, entities>>

\* ------------------------------------------------------------------------
\* State of the process-wide model lifecycle (ner_model_optimized.py) and of
\* the threads that call it
\* ------------------------------------------------------------------------
VARIABLES
    _model,        \* global: the k-th model object built, NoneRef, or Unbound
    _tokenizer,    \* global: the k-th tokenizer object built, NoneRef, or Unbound
    _device,       \* global: "cpu" or None
    ckpt,          \* the checkpoint file: "missing", "bad" (weights do not fit) or "ok"
    constructed,   \* number of BertForTokenClassification objects built so far
    tokenizers,    \* number of tokenizer objects load_model_lazy built so far
    applied,       \* the model objects on which load_state_dict has completed
    calls,         \* number of calls started so far
    op,            \* per thread: the call it runs
    pc,            \* per thread: the line it is about to execute
    handle,        \* per thread: (model, tokenizer, device) it holds
    state_dict,    \* per thread: what torch.load gave it
    err,           \* per thread: the exception of its call, or None
    reclaimed,     \* per thread: a reclaim pass (clear_memory, cleanup_memory)
                   \* ran after the last work of its current call
    lastHandle     \* history: the handle load_model_lazy returned last since
                   \* unload_model was last called

gvars == <<_model, _tokenizer, _device>>
tvars == <<op, pc, handle, state_dict, err, reclaimed>>
lvars == <<gvars, ckpt, constructed, tokenizers, applied, calls, tvars, lastHandle>>

\* ------------------------------------------------------------------------
\* State of the tokenize / predict / align part of extract_resume_entities
\* (lines 89-143), which produces tokens and predicted_labels
\* ------------------------------------------------------------------------
VARIABLES
    resume_text,         \* the argument of extract_resume_entities
    word_ids,            \* inputs.word_ids(0): per sub-word position, the index
                         \* of the word that owns it, or NoWord
    predictions,         \* predictions[0]: per sub-word position, a label id
    idx,                 \* position of the alignment loop (0-based)
    previous_word_idx    \* last word index the alignment loop labelled

avars == <<resume_text, word_ids, predictions, idx, previous_word_idx>>

\* ------------------------------------------------------------------------
\* State of one run of clean_text_pipeline (minegold.py), called a second time
\* on its own result
\* ------------------------------------------------------------------------
VARIABLES
    input_text,   \* the argument of the running call
    text,         \* the local variable text
    step,         \* index of the next cleaning step (1-based); 0: no call
    failed,       \* the steps of the running call that raised
    call_no,      \* 1: the call on the drawn text, 2: the call on its result
    normalized    \* what the first call returned, None before

nvars == <<input_text, text, step, failed, call_no, normalized>>

\* ------------------------------------------------------------------------
\* State of one run of process_pdf (minegold.py)
\* ------------------------------------------------------------------------
VARIABLES
    pdf,            \* the file: whether it opens, and the raw text of its pages
    ppc,            \* position in process_pdf
    page_no,        \* the page the loop is at
    output_stream,  \* contents of the StringIO buffer
    full_text,      \* the list full_text
    final_text,     \* what process_pdf returned, None before
    perr            \* the exception process_pdf raised, None before

pvars == <<pdf, ppc, page_no, output_stream, full_text, final_text, perr>>

\* ------------------------------------------------------------------------
\* State of the /minedata handler process_file (main.py)
\* ------------------------------------------------------------------------
VARIABLES
    rpc,          \* position in process_file of the request being served
    worker,       \* the thread that serves the request
    request_no,   \* number of requests received so far
    raw_folder,   \* the requests whose upload is a file of RAW_FOLDER
    response,     \* status and message of the response to the request
    sent          \* history: the responses given so far, each with the kind of
                  \* failure it answers

svars == <<rpc, worker, request_no, raw_folder, response, sent>>

\* ------------------------------------------------------------------------
\* State of the account tables (models.py) and of the requests to the
\* endpoints of auth_routes.py, for one e-mail address
\* ------------------------------------------------------------------------
VARIABLES
    user,                \* the users row of the address: "absent", "unverified"
                         \* or "verified" (is_verified)
    verification_codes,  \* the committed rows of the table, in insertion order
    session,             \* per thread: the request it serves and what the
                         \* request has read so far
    accepted             \* history: the rows with which verify-email answered 200

uvars == <<user, verification_codes, session, accepted>>

wvars == <<svars, uvars>>

xvars == <<avars, nvars, pvars, wvars>>

vars == <<dvars, xvars, lvars>>

\* zip(tokens, predicted_labels) stops at the shorter sequence
ZipLen == IF Len(tokens) <= Len(predicted_labels) THEN Len(tokens) ELSE Len(predicted_labels)

\* entities_with_duplicates[current_entity].append(' '.join(current_text))
CloseSpan(ewd, ce, ct) == DictAppend(ewd, ce, Join(" ", ct))

DecState(ewd, ce, ct) ==
    [entities_with_duplicates |-> ewd, current_entity |-> ce, current_text |-> ct]

\* label == 'O'
OnO(ewd, ce, ct) ==
    IF Truthy(ce) THEN DecState(CloseSpan(ewd, ce, ct), None, <<>>)
    ELSE DecState(ewd, ce, ct)

\* slip: a B- label forgets to close the span that is open
OnB_NoClose(ewd, ce, ct, token, label) ==
    DecState(ewd, From2(label), <<token>>)

\* label.startswith('B-')
OnB(ewd, ce, ct, token, label) ==
    DecState(IF Truthy(ce) THEN CloseSpan(ewd, ce, ct) ELSE ewd, From2(label), <<token>>)

\* slip: a continuation that matches no open span is dropped
OnI_DropOrphan(ewd, ce, ct, token, label) ==
    IF ce = From2(label)
    THEN DecState(ewd, ce, Append(ct, token))
    ELSE DecState(ewd, ce, ct)

\* slip: every I- label opens a span of its own, as a B- label does
OnI_AsB(ewd, ce, ct, token, label) ==
    DecState(IF Truthy(ce) THEN CloseSpan(ewd, ce, ct) ELSE ewd, From2(label), <<token>>)

\* label.startswith('I-')
OnI(ewd, ce, ct, token, label) ==
    IF ce = From2(label)
    THEN DecState(ewd, ce, Append(ct, token))
    ELSE DecState(IF Truthy(ce) THEN CloseSpan(ewd, ce, ct) ELSE ewd, From2(label), <<token>>)

\* body of: for token, label in zip(tokens, predicted_labels)
GroupBody(ewd, ce, ct, token, label) ==
    IF label = "O" THEN OnO(ewd, ce, ct)
    ELSE IF StartsWith(label, "B-") THEN OnB(ewd, ce, ct, token, label)
    ELSE IF StartsWith(label, "I-") THEN OnI(ewd, ce, ct, token, label)
    ELSE DecState(ewd, ce, ct)

\* slip: the span open after the last word is not flushed
LastEntity_NoFlush(ewd, ce, ct) == ewd

\* "Add last entity"
LastEntity(ewd, ce, ct) ==
    IF Truthy(ce) /\ Len(ct) > 0 THEN CloseSpan(ewd, ce, ct) ELSE ewd

\* slip: only one trailing comma is removed
Clean_OneComma(m) == RStripOnce(Strip(m), {","})

\* m.strip().rstrip(',')
Clean(m) == RStrip(Strip(m), {","})

\* cleaned_mentions = [m.strip().rstrip(',') for m in mentions]
CleanedMentions(mentions) == [i \in 1..Len(mentions) |-> Clean(mentions[i])]

\* slip: the comparison is case-sensitive
IsDuplicate_CaseSensitive(m, unique_mentions) ==
    \E e \in 1..Len(unique_mentions) : m = unique_mentions[e]

\* any(m.lower() == existing.lower() for existing in unique_mentions)
IsDuplicate(m, unique_mentions) ==
    \E e \in 1..Len(unique_mentions) : Lower(m) = Lower(unique_mentions[e])

\* for m in cleaned_mentions: if not any(...): unique_mentions.append(m)
RECURSIVE UniqueLoop(_, _, _)
UniqueLoop(cleaned_mentions, i, unique_mentions) ==
    IF i > Len(cleaned_mentions) THEN unique_mentions
    ELSE UniqueLoop(cleaned_mentions, i + 1,
                    IF IsDuplicate(cleaned_mentions[i], unique_mentions)
                    THEN unique_mentions
                    ELSE Append(unique_mentions, cleaned_mentions[i]))

UniqueMentions(mentions) == UniqueLoop(CleanedMentions(mentions), 1, <<>>)

\* ---- actions of the decoder --------------------------------------------
\* one iteration of the grouping loop
GroupStep ==
    /\ dpc = "group"
    /\ di <= ZipLen
    /\ LET r == GroupBody(entities_with_duplicates, current_entity, current_text,
                          tokens[di], predicted_labels[di])
       IN /\ entities_with_duplicates' = r.entities_with_duplicates
          /\ current_entity' = r.current_entity
          /\ current_text' = r.current_text
    /\ di' = di + 1
    /\ UNCHANGED <<tokens, predicted_labels, dpc, entities, xvars, lvars>>

\* the loop is over: flush the open span
AddLastEntity ==
    /\ dpc = "group"
    /\ di > ZipLen
    /\ entities_with_duplicates' =
           LastEntity(entities_with_duplicates, current_entity, current_text)
    /\ dpc' = "dedupe"
    /\ UNCHANGED <<tokens, predicted_labels, di, current_entity, current_text, entities, xvars, lvars>>

\* slip: the result has a key for each of the eight types
RemoveDuplicates_AllKeys ==
    /\ dpc = "dedupe"
    /\ entities' = [entity_type \in Range(unique_labels) |->
                       IF entity_type \in DOMAIN entities_with_duplicates
                       THEN UniqueMentions(entities_with_duplicates[entity_type])
                       ELSE <<>>]
    /\ dpc' = "done"
    /\ UNCHANGED <<tokens, predicted_labels, di, current_entity, current_text,
                   entities_with_duplicates, xvars, lvars>>

\* "Remove duplicates"
RemoveDuplicates ==
    /\ dpc = "dedupe"
    /\ entities' = [entity_type \in DOMAIN entities_with_duplicates |->
                       UniqueMentions(entities_with_duplicates[entity_type])]
    /\ dpc' = "done"
    /\ UNCHANGED <<tokens, predicted_labels, di, current_entity, current_text,
                   entities_with_duplicates, xvars, lvars>>

\* ---- inputs --------------------------------------------------------------
\* words are maximal runs of non-whitespace characters
Vocab == {"a", "A", "a,,", ","}

\* entity types of the drawn label sequences
DecTypes == {"NAME", "SKILLS"}

DecLabels == {"O"} \cup {"B-" \o t : t \in DecTypes} \cup {"I-" \o t : t \in DecTypes}

\* the worked examples of the specification
Examples ==
    { [w |-> <<"Jane", "Doe", "at", "Acme", "Corp">>,
       l |-> <<"B-NAME", "I-NAME", "O", "B-COMPANY", "I-COMPANY">>],
      [w |-> <<"Python", "SQL">>, l |-> <<"I-SKILLS", "I-SKILLS">>],
      [w |-> <<"Java", "java", "JAVA", "Python">>,
       l |-> <<"B-SKILLS", "B-SKILLS", "B-SKILLS", "B-SKILLS">>] }

DecInputs ==
    Examples \cup
    UNION {[w : [1..k -> Vocab], l : [1..k -> DecLabels]] : k \in 0..MaxWords}

\* ------------------------------------------------------------------------
\* Model lifecycle: load_model_lazy, unload_model, extract_resume_entities
\* (ner_model_optimized.py) and the /minedata handler, which calls
\* ner_model.extract_resume_entities (main.py:9, main.py:117).
\* One action per statement; the number is the line the thread executes.
\* ------------------------------------------------------------------------
\* number of worker threads of the service
NThreads == 2

\* number of calls a behaviour starts
MaxCalls == 3

Threads == 1..NThreads

\* None as an object reference; a global name removed by del
NoneRef == 0
Unbound == -1

NoHandle == <<>>

\* None as a word index (word_ids holds None at positions that own no word)
NoWord == -1

CkptStates == {"missing", "bad", "ok"}

\* the model objects some variable refers to: the global and the locals of
\* the calls in progress
LiveModels ==
    ({_model} \cup {handle[t][1] : t \in {u \in Threads : pc[u] # "idle" /\ handle[u] # NoHandle}})
        \ {NoneRef, Unbound}

AllIdle == \A t \in Threads : pc[t] = "idle"

Goto(t, l) == pc' = [pc EXCEPT ![t] = l]

\* a call begins
Begin(t, o, l) ==
    /\ pc[t] = "idle"
    /\ calls < MaxCalls
    /\ calls' = calls + 1
    /\ op' = [op EXCEPT ![t] = o]
    /\ pc' = [pc EXCEPT ![t] = l]
    /\ handle' = [handle EXCEPT ![t] = NoHandle]
    /\ state_dict' = [state_dict EXCEPT ![t] = None]
    /\ err' = [err EXCEPT ![t] = None]
    /\ reclaimed' = [reclaimed EXCEPT ![t] = FALSE]

\* an exception leaves load_model_lazy / unload_model: into the except
\* block of extract_resume_entities (line 197), else out of the call
Raise(t, e) ==
    /\ err' = [err EXCEPT ![t] = e]
    /\ pc' = [pc EXCEPT ![t] = IF op[t] = "extract" THEN "E199" ELSE "idle"]
    /\ state_dict' = [state_dict EXCEPT ![t] = None]

\* load_model_lazy returns the globals (lines 28 and 74); in
\* extract_resume_entities line 82 binds them to model, tokenizer, device
ReturnHandle(t) ==
    IF _model = Unbound \/ _tokenizer = Unbound
    THEN /\ Raise(t, "NameError")
         /\ UNCHANGED <<handle, lastHandle>>
    ELSE /\ handle' = [handle EXCEPT ![t] = <<_model, _tokenizer, _device>>]
         /\ lastHandle' = <<_model, _tokenizer, _device>>
         /\ pc' = [pc EXCEPT ![t] = IF op[t] = "extract" THEN "E100" ELSE "idle"]
         /\ UNCHANGED <<err, state_dict>>

\* a caller asks for the handle
StartLoad(t) ==
    /\ Begin(t, "load", "L27")
    /\ UNCHANGED <<dvars, xvars, gvars, ckpt, constructed, tokenizers, applied, lastHandle>>

\* slip: the presence test never succeeds
IsLoaded_Never == FALSE

\* line 27: _model is not None
IsLoaded == _model # NoneRef

L27(t) ==
    /\ pc[t] = "L27"
    /\ IF _model = Unbound
       THEN Raise(t, "NameError")
       ELSE Goto(t, IF IsLoaded THEN "L28" ELSE "L37") /\ UNCHANGED <<err, state_dict>>
    /\ UNCHANGED <<dvars, xvars, gvars, ckpt, constructed, tokenizers, applied, calls,
                   op, handle, reclaimed, lastHandle>>

L28(t) ==
    /\ pc[t] = "L28"
    /\ ReturnHandle(t)
    /\ UNCHANGED <<dvars, xvars, gvars, ckpt, constructed, tokenizers, applied, calls, op, reclaimed>>

L37(t) ==
    /\ pc[t] = "L37"
    /\ _device' = "cpu"
    /\ Goto(t, "L40")
    /\ UNCHANGED <<dvars, xvars, _model, _tokenizer, ckpt, constructed, tokenizers, applied, calls,
                   op, handle, state_dict, err, reclaimed, lastHandle>>

L40(t) ==
    /\ pc[t] = "L40"
    /\ tokenizers' = tokenizers + 1
    /\ _tokenizer' = tokenizers + 1
    /\ Goto(t, "L43")
    /\ UNCHANGED <<dvars, xvars, _model, _device, ckpt, constructed, applied, calls,
                   op, handle, state_dict, err, reclaimed, lastHandle>>

\* slip: the existence test is missing
L43_NoCheck(t) ==
    /\ pc[t] = "L43"
    /\ Goto(t, "L47")
    /\ UNCHANGED <<dvars, xvars, gvars, ckpt, constructed, tokenizers, applied, calls,
                   op, handle, state_dict, err, reclaimed, lastHandle>>

L43(t) ==
    /\ pc[t] = "L43"
    /\ IF ckpt = "missing"
       THEN Raise(t, "FileNotFoundError")
       ELSE Goto(t, "L47") /\ UNCHANGED <<err, state_dict>>
    /\ UNCHANGED <<dvars, xvars, gvars, ckpt, constructed, tokenizers, applied, calls,
                   op, handle, reclaimed, lastHandle>>

L47(t) ==
    /\ pc[t] = "L47"
    /\ constructed' = constructed + 1
    /\ _model' = constructed + 1
    /\ Goto(t, "L56")
    /\ UNCHANGED <<dvars, xvars, _tokenizer, _device, ckpt, tokenizers, applied, calls,
                   op, handle, state_dict, err, reclaimed, lastHandle>>

\* torch.load and the float32 conversion (lines 56-64)
L56(t) ==
    /\ pc[t] = "L56"
    /\ IF ckpt = "missing"
       THEN Raise(t, "FileNotFoundError")
       ELSE /\ state_dict' = [state_dict EXCEPT ![t] = ckpt]
            /\ Goto(t, "L66")
            /\ UNCHANGED err
    /\ UNCHANGED <<dvars, xvars, gvars, ckpt, constructed, tokenizers, applied, calls,
                   op, handle, reclaimed, lastHandle>>

L66(t) ==
    /\ pc[t] = "L66"
    /\ IF _model = Unbound THEN Raise(t, "NameError") /\ UNCHANGED applied
       ELSE IF _model = NoneRef THEN Raise(t, "AttributeError") /\ UNCHANGED applied
       ELSE IF state_dict[t] # "ok" THEN Raise(t, "RuntimeError") /\ UNCHANGED applied
       ELSE /\ applied' = applied \cup {_model}
            /\ Goto(t, "L67")
            /\ UNCHANGED <<err, state_dict>>
    /\ UNCHANGED <<dvars, xvars, gvars, ckpt, constructed, tokenizers, calls,
                   op, handle, reclaimed, lastHandle>>

\* _model.to(_device) and _model.eval(): each dereferences the global
Deref(t, next) ==
    /\ IF _model = Unbound THEN Raise(t, "NameError")
       ELSE IF _model = NoneRef THEN Raise(t, "AttributeError")
       ELSE Goto(t, next) /\ UNCHANGED <<err, state_dict>>
    /\ UNCHANGED <<dvars, xvars, gvars, ckpt, constructed, tokenizers, applied, calls,
                   op, handle, reclaimed, lastHandle>>

L67(t) == pc[t] = "L67" /\ Deref(t, "L68")

L68(t) == pc[t] = "L68" /\ Deref(t, "L72")

\* del compressed_state_dict, state_dict_fp32; clear_memory()
L72(t) ==
    /\ pc[t] = "L72"
    /\ state_dict' = [state_dict EXCEPT ![t] = None]
    /\ reclaimed' = [reclaimed EXCEPT ![t] = TRUE]
    /\ Goto(t, "L74")
    /\ UNCHANGED <<dvars, xvars, gvars, ckpt, constructed, tokenizers, applied, calls,
                   op, handle, err, lastHandle>>

L74(t) ==
    /\ pc[t] = "L74"
    /\ ReturnHandle(t)
    /\ UNCHANGED <<dvars, xvars, gvars, ckpt, constructed, tokenizers, applied, calls, op, reclaimed>>

\* ---- extract_resume_entities of ner_model_optimized.py --------------------
\* line 82: the call starts with load_model_lazy
StartExtract(t) ==
    /\ Begin(t, "extract", "L27")
    /\ UNCHANGED <<dvars, xvars, gvars, ckpt, constructed, tokenizers, applied, lastHandle>>

\* lines 89-124: tokenize, run the model, clear_memory(); the tokenizer or
\* the model may be None, and the forward pass may fail
E100(t) ==
    /\ pc[t] = "E100"
    /\ \/ /\ handle[t][1] = NoneRef \/ handle[t][2] = NoneRef
          /\ err' = [err EXCEPT ![t] = "TypeError"]
          /\ Goto(t, "E199")
          /\ reclaimed' = [reclaimed EXCEPT ![t] = FALSE]
       \/ /\ handle[t][1] # NoneRef /\ handle[t][2] # NoneRef
          /\ err' = [err EXCEPT ![t] = "RuntimeError"]
          /\ Goto(t, "E199")
          /\ reclaimed' = [reclaimed EXCEPT ![t] = FALSE]
       \/ /\ handle[t][1] # NoneRef /\ handle[t][2] # NoneRef
          /\ reclaimed' = [reclaimed EXCEPT ![t] = TRUE]
          /\ Goto(t, "E193")
          /\ UNCHANGED err
    /\ UNCHANGED <<dvars, xvars, gvars, ckpt, constructed, tokenizers, applied, calls,
                   op, handle, state_dict, lastHandle>>

\* lines 126-193: align, group, deduplicate (local), clear_memory(); a
\* statement of these lines may raise
E193(t) ==
    /\ pc[t] = "E193"
    /\ \/ /\ reclaimed' = [reclaimed EXCEPT ![t] = TRUE]
          /\ Goto(t, "E195")
          /\ UNCHANGED err
       \/ /\ reclaimed' = [reclaimed EXCEPT ![t] = FALSE]
          /\ err' = [err EXCEPT ![t] = "KeyError"]
          /\ Goto(t, "E199")
    /\ UNCHANGED <<dvars, xvars, gvars, ckpt, constructed, tokenizers, applied, calls,
                   op, handle, state_dict, lastHandle>>

\* return entities
E195(t) ==
    /\ pc[t] = "E195"
    /\ Goto(t, "idle")
    /\ handle' = [handle EXCEPT ![t] = NoHandle]
    /\ UNCHANGED <<dvars, xvars, gvars, ckpt, constructed, tokenizers, applied, calls,
                   op, state_dict, err, reclaimed, lastHandle>>

\* slip: the except block does not call clear_memory
E199_NoClear(t) ==
    /\ pc[t] = "E199"
    /\ Goto(t, "E200")
    /\ UNCHANGED <<dvars, xvars, gvars, ckpt, constructed, tokenizers, applied, calls,
                   op, handle, state_dict, err, reclaimed, lastHandle>>

\* except Exception as e: clear_memory()
E199(t) ==
    /\ pc[t] = "E199"
    /\ reclaimed' = [reclaimed EXCEPT ![t] = TRUE]
    /\ Goto(t, "E200")
    /\ UNCHANGED <<dvars, xvars, gvars, ckpt, constructed, tokenizers, applied, calls,
                   op, handle, state_dict, err, lastHandle>>

\* slip: the except block returns an empty mapping instead of raising
E200_ReturnEmpty(t) ==
    /\ pc[t] = "E200"
    /\ Goto(t, "idle")
    /\ handle' = [handle EXCEPT ![t] = NoHandle]
    /\ err' = [err EXCEPT ![t] = None]
    /\ UNCHANGED <<dvars, xvars, gvars, ckpt, constructed, tokenizers, applied, calls,
                   op, state_dict, reclaimed, lastHandle>>

\* raise e
E200(t) ==
    /\ pc[t] = "E200"
    /\ Goto(t, "idle")
    /\ handle' = [handle EXCEPT ![t] = NoHandle]
    /\ UNCHANGED <<dvars, xvars, gvars, ckpt, constructed, tokenizers, applied, calls,
                   op, state_dict, err, reclaimed, lastHandle>>

\* ---- a function wrapped by memory_monitor (memory_optimizer.py) -------------
\* the wrapper is called; line 29: log_memory_usage
StartMonitored(t) ==
    /\ Begin(t, "monitored", "M32")
    /\ UNCHANGED <<dvars, xvars, gvars, ckpt, constructed, tokenizers, applied, lastHandle>>

\* lines 31-33: the wrapped function runs; it returns or it raises
M32(t) ==
    /\ pc[t] = "M32"
    /\ \E e \in {None, "Exception"} : err' = [err EXCEPT ![t] = e]
    /\ reclaimed' = [reclaimed EXCEPT ![t] = FALSE]
    /\ Goto(t, "M35")
    /\ UNCHANGED <<dvars, xvars, gvars, ckpt, constructed, tokenizers, applied, calls,
                   op, handle, state_dict, lastHandle>>

\* finally: cleanup_memory() and the log line; then the result is returned
\* or the exception goes on to the caller
M35(t) ==
    /\ pc[t] = "M35"
    /\ reclaimed' = [reclaimed EXCEPT ![t] = TRUE]
    /\ Goto(t, "idle")
    /\ UNCHANGED <<dvars, xvars, gvars, ckpt, constructed, tokenizers, applied, calls,
                   op, handle, state_dict, err, lastHandle>>

\* ---- unload_model ----------------------------------------------------------
StartUnload(t) ==
    /\ Begin(t, "unload", "U206")
    /\ lastHandle' = NoHandle
    /\ UNCHANGED <<dvars, xvars, gvars, ckpt, constructed, tokenizers, applied>>

\* if _model is not None
U206(t) ==
    /\ pc[t] = "U206"
    /\ IF _model = Unbound
       THEN Raise(t, "NameError")
       ELSE Goto(t, IF _model # NoneRef THEN "U207" ELSE "U210") /\ UNCHANGED <<err, state_dict>>
    /\ UNCHANGED <<dvars, xvars, gvars, ckpt, constructed, tokenizers, applied, calls,
                   op, handle, reclaimed, lastHandle>>

\* del _model
U207(t) ==
    /\ pc[t] = "U207"
    /\ IF _model = Unbound
       THEN Raise(t, "NameError") /\ UNCHANGED _model
       ELSE _model' = Unbound /\ Goto(t, "U208") /\ UNCHANGED <<err, state_dict>>
    /\ UNCHANGED <<dvars, xvars, _tokenizer, _device, ckpt, constructed, tokenizers, applied, calls,
                   op, handle, reclaimed, lastHandle>>

\* _model = None
U208(t) ==
    /\ pc[t] = "U208"
    /\ _model' = NoneRef
    /\ Goto(t, "U210")
    /\ UNCHANGED <<dvars, xvars, _tokenizer, _device, ckpt, constructed, tokenizers, applied, calls,
                   op, handle, state_dict, err, reclaimed, lastHandle>>

\* if _tokenizer is not None
U210(t) ==
    /\ pc[t] = "U210"
    /\ IF _tokenizer = Unbound
       THEN Raise(t, "NameError")
       ELSE Goto(t, IF _tokenizer # NoneRef THEN "U211" ELSE "U214") /\ UNCHANGED <<err, state_dict>>
    /\ UNCHANGED <<dvars, xvars, gvars, ckpt, constructed, tokenizers, applied, calls,
                   op, handle, reclaimed, lastHandle>>

\* del _tokenizer
U211(t) ==
    /\ pc[t] = "U211"
    /\ IF _tokenizer = Unbound
       THEN Raise(t, "NameError") /\ UNCHANGED _tokenizer
       ELSE _tokenizer' = Unbound /\ Goto(t, "U212") /\ UNCHANGED <<err, state_dict>>
    /\ UNCHANGED <<dvars, xvars, _model, _device, ckpt, constructed, tokenizers, applied, calls,
                   op, handle, reclaimed, lastHandle>>

\* _tokenizer = None
U212(t) ==
    /\ pc[t] = "U212"
    /\ _tokenizer' = NoneRef
    /\ Goto(t, "U214")
    /\ UNCHANGED <<dvars, xvars, _model, _device, ckpt, constructed, tokenizers, applied, calls,
                   op, handle, state_dict, err, reclaimed, lastHandle>>

\* slip: the device reference is left in place
U214_KeepDevice(t) ==
    /\ pc[t] = "U214"
    /\ Goto(t, "U215")
    /\ UNCHANGED <<dvars, xvars, gvars, ckpt, constructed, tokenizers, applied, calls,
                   op, handle, state_dict, err, reclaimed, lastHandle>>

\* _device = None
U214(t) ==
    /\ pc[t] = "U214"
    /\ _device' = None
    /\ Goto(t, "U215")
    /\ UNCHANGED <<dvars, xvars, _model, _tokenizer, ckpt, constructed, tokenizers, applied, calls,
                   op, handle, state_dict, err, reclaimed, lastHandle>>

\* clear_memory()
U215(t) ==
    /\ pc[t] = "U215"
    /\ reclaimed' = [reclaimed EXCEPT ![t] = TRUE]
    /\ Goto(t, "idle")
    /\ UNCHANGED <<dvars, xvars, gvars, ckpt, constructed, tokenizers, applied, calls,
                   op, handle, state_dict, err, lastHandle>>

\* ---- /minedata: process_file calls ner_model.extract_resume_entities -------
\* main.py:117, reached after the upload was saved and its text extracted
StartMineData(t) ==
    /\ Begin(t, "minedata", "N41")
    /\ UNCHANGED <<dvars, xvars, gvars, ckpt, constructed, tokenizers, applied, lastHandle>>

\* an exception leaves ner_model.extract_resume_entities: its locals are
\* dropped and process_file answers 500 (main.py:164-170)
RaiseLocal(t, e) ==
    /\ err' = [err EXCEPT ![t] = e]
    /\ Goto(t, "idle")
    /\ handle' = [handle EXCEPT ![t] = NoHandle]
    /\ state_dict' = [state_dict EXCEPT ![t] = None]

\* ner_model.py:41
N41(t) ==
    /\ pc[t] = "N41"
    /\ IF ckpt = "missing"
       THEN RaiseLocal(t, "FileNotFoundError")
       ELSE Goto(t, "N47") /\ UNCHANGED <<err, handle, state_dict>>
    /\ UNCHANGED <<dvars, xvars, gvars, ckpt, constructed, tokenizers, applied, calls,
                   op, reclaimed, lastHandle>>

\* ner_model.py:47: model = BertForTokenClassification.from_pretrained(...)
N47(t) ==
    /\ pc[t] = "N47"
    /\ constructed' = constructed + 1
    /\ handle' = [handle EXCEPT ![t] = <<constructed + 1, NoneRef, "cpu">>]
    /\ Goto(t, "N55")
    /\ UNCHANGED <<dvars, xvars, gvars, ckpt, tokenizers, applied, calls,
                   op, state_dict, err, reclaimed, lastHandle>>

\* ner_model.py:55-63
N55(t) ==
    /\ pc[t] = "N55"
    /\ IF ckpt = "missing"
       THEN RaiseLocal(t, "FileNotFoundError")
       ELSE /\ state_dict' = [state_dict EXCEPT ![t] = ckpt]
            /\ Goto(t, "N65")
            /\ UNCHANGED <<err, handle>>
    /\ UNCHANGED <<dvars, xvars, gvars, ckpt, constructed, tokenizers, applied, calls,
                   op, reclaimed, lastHandle>>

\* ner_model.py:65-68
N65(t) ==
    /\ pc[t] = "N65"
    /\ IF state_dict[t] # "ok"
       THEN RaiseLocal(t, "RuntimeError") /\ UNCHANGED applied
       ELSE /\ applied' = applied \cup {handle[t][1]}
            /\ Goto(t, "N93")
            /\ UNCHANGED <<err, handle, state_dict>>
    /\ UNCHANGED <<dvars, xvars, gvars, ckpt, constructed, tokenizers, calls,
                   op, reclaimed, lastHandle>>

\* ner_model.py:70-94: tokenize and run the model; the forward pass may fail
N93(t) ==
    /\ pc[t] = "N93"
    /\ \/ RaiseLocal(t, "RuntimeError")
       \/ Goto(t, "N171") /\ UNCHANGED <<err, handle, state_dict>>
    /\ UNCHANGED <<dvars, xvars, gvars, ckpt, constructed, tokenizers, applied, calls,
                   op, reclaimed, lastHandle>>

\* ner_model.py:96-171: align, group, deduplicate, return entities
N171(t) ==
    /\ pc[t] = "N171"
    /\ Goto(t, "idle")
    /\ handle' = [handle EXCEPT ![t] = NoHandle]
    /\ state_dict' = [state_dict EXCEPT ![t] = None]
    /\ UNCHANGED <<dvars, xvars, gvars, ckpt, constructed, tokenizers, applied, calls,
                   op, err, reclaimed, lastHandle>>

\* ---- environment -----------------------------------------------------------
\* the checkpoint file is removed, replaced or repaired
SetCheckpoint ==
    /\ \E c \in CkptStates \ {ckpt} : ckpt' = c
    /\ UNCHANGED <<dvars, xvars, gvars, constructed, tokenizers, applied, calls, tvars, lastHandle>>

\* a statement of a call in progress
Step(t) ==
    \/ L27(t) \/ L28(t) \/ L37(t) \/ L40(t) \/ L43(t) \/ L47(t) \/ L56(t)
    \/ L66(t) \/ L67(t) \/ L68(t) \/ L72(t) \/ L74(t)
    \/ E100(t) \/ E193(t) \/ E195(t) \/ E199(t) \/ E200(t)
    \/ M32(t) \/ M35(t)
    \/ U206(t) \/ U207(t) \/ U208(t) \/ U210(t) \/ U211(t) \/ U212(t)
    \/ U214(t) \/ U215(t)
    \/ N41(t) \/ N47(t) \/ N55(t) \/ N65(t) \/ N93(t) \/ N171(t)

Start(t) ==
    \/ StartLoad(t) \/ StartExtract(t) \/ StartUnload(t) \/ StartMineData(t)
    \/ StartMonitored(t)

\* a fresh process: module globals as lines 13-15 set them
LifeFresh ==
    /\ _model = NoneRef
    /\ _tokenizer = NoneRef
    /\ _device = None
    /\ constructed = 0
    /\ tokenizers = 0
    /\ applied = {}
    /\ calls = 0
    /\ op = [t \in Threads |-> None]
    /\ pc = [t \in Threads |-> "idle"]
    /\ handle = [t \in Threads |-> NoHandle]
    /\ state_dict = [t \in Threads |-> None]
    /\ err = [t \in Threads |-> None]
    /\ reclaimed = [t \in Threads |-> FALSE]
    /\ lastHandle = NoHandle

\* no extraction in progress
DecIdle ==
    /\ tokens = <<>>
    /\ predicted_labels = <<>>
    /\ dpc = "done"
    /\ di = 1
    /\ current_entity = None
    /\ current_text = <<>>
    /\ entities_with_duplicates = EmptyDict
    /\ entities = EmptyDict

\* no tokenization in progress
AlignIdle ==
    /\ resume_text = ""
    /\ word_ids = <<>>
    /\ predictions = <<>>
    /\ idx = 0
    /\ previous_word_idx = NoWord

\* clean_text_pipeline is not running
NormIdle ==
    /\ input_text = ""
    /\ text = ""
    /\ step = 0
    /\ failed = {}
    /\ call_no = 0
    /\ normalized = None

\* process_pdf is not running
PdfIdle ==
    /\ pdf = [opens |-> FALSE, pages |-> <<>>]
    /\ ppc = "idle"
    /\ page_no = 0
    /\ output_stream = ""
    /\ full_text = <<>>
    /\ final_text = None
    /\ perr = None

\* the response of a request that has not been answered
NoResponse == [status |-> 0, message |-> ""]

\* no request has been received
WebIdle ==
    /\ rpc = "idle"
    /\ worker = 1
    /\ request_no = 0
    /\ raw_folder = {}
    /\ response = NoResponse
    /\ sent = {}

\* a thread that serves no request of auth_routes.py
NoSession == [op |-> None, pc |-> "idle", code |-> None, old_codes |-> {}, verification |-> 0]

\* the address has no account and no request is being served
AuthIdle ==
    /\ user = "absent"
    /\ verification_codes = <<>>
    /\ session = [t \in Threads |-> NoSession]
    /\ accepted = <<>>

XIdle == AlignIdle /\ NormIdle /\ PdfIdle /\ WebIdle /\ AuthIdle

Init ==
    /\ LifeFresh
    /\ ckpt \in CkptStates
    /\ DecIdle
    /\ XIdle

\* worker threads run their calls concurrently
Next == SetCheckpoint \/ \E t \in Threads : Start(t) \/ Step(t)

Spec == Init /\ [][Next]_vars

\* requests are served one at a time: a call starts when no call is running
SeqNext == SetCheckpoint \/ \E t \in Threads : (AllIdle /\ Start(t)) \/ Step(t)

SeqSpec == Init /\ [][SeqNext]_vars

\* ---- the decoder run on drawn inputs ---------------------------------------
DecInit ==
    /\ \E inp \in DecInputs : tokens = inp.w /\ predicted_labels = inp.l
    /\ dpc = "group"
    /\ di = 1
    /\ current_entity = None
    /\ current_text = <<>>
    /\ entities_with_duplicates = EmptyDict
    /\ entities = EmptyDict
    /\ LifeFresh
    /\ ckpt = "ok"
    /\ XIdle

DecNext == GroupStep \/ AddLastEntity \/ RemoveDuplicates

DecSpec == DecInit /\ [][DecNext]_vars


\* ------------------------------------------------------------------------
\* Properties of the decoder and the deduplicator (checked under DecSpec)
\* ------------------------------------------------------------------------
AllTypes == Range(unique_labels)

\* the raw spans of a type (a type without a key has none)
RawOf(T) ==
    IF T \in DOMAIN entities_with_duplicates THEN entities_with_duplicates[T] ELSE <<>>

\* the words of a span string: the maximal runs without a space
RECURSIVE SplitWords(_, _)
SplitWords(s, cur) ==
    IF Len(s) = 0 THEN (IF cur = "" THEN <<>> ELSE <<cur>>)
    ELSE IF Char(s, 1) = " "
         THEN (IF cur = "" THEN <<>> ELSE <<cur>>) \o SplitWords(SubSeq(s, 2, Len(s)), "")
         ELSE SplitWords(SubSeq(s, 2, Len(s)), cur \o Char(s, 1))

RECURSIVE FlattenSpans(_)
FlattenSpans(spans) ==
    IF Len(spans) = 0 THEN <<>>
    ELSE SplitWords(spans[1], "") \o FlattenSpans(Tail(spans))

\* positions 1..n whose label is B-T or I-T
LabelledPos(T, n) ==
    {i \in 1..n : predicted_labels[i] \in {"B-" \o T, "I-" \o T}}

\* the increasing enumeration of a finite set of integers
RECURSIVE SortedSeq(_)
SortedSeq(S) ==
    IF S = {} THEN <<>>
    ELSE LET m == CHOOSE x \in S : \A y \in S : x <= y
         IN <<m>> \o SortedSeq(S \ {m})

LabelledWords(T, n) ==
    LET ps == SortedSeq(LabelledPos(T, n)) IN [k \in 1..Len(ps) |-> tokens[ps[k]]]

\* number of pairs the grouping loop has consumed
Processed == IF dpc = "group" THEN di - 1 ELSE ZipLen

\* the words of the span that is still open
OpenWords(T) == IF dpc = "group" /\ current_entity = T THEN current_text ELSE <<>>

\* C1: for every type, the words of the decoded raw spans (plus the open
\* span while the loop runs) are exactly the words labelled B-T or I-T so
\* far, each once and in order; the word counts agree; a word labelled O is
\* in no span; only entity types are keys.
C1_Conservation ==
    /\ DOMAIN entities_with_duplicates \subseteq AllTypes
    /\ \A T \in AllTypes :
          /\ FlattenSpans(RawOf(T)) \o OpenWords(T) = LabelledWords(T, Processed)
          /\ Len(FlattenSpans(RawOf(T))) + Len(OpenWords(T))
                 = Cardinality(LabelledPos(T, Processed))

C1_Witness ==
    /\ dpc = "done"
    /\ \E i \in 1..Len(predicted_labels) : predicted_labels[i] = "O"
    /\ \E T \in AllTypes : Len(RawOf(T)) >= 2

\* every I-T directly follows a B-T or an I-T of the same type
WellFormed ==
    \A i \in 1..Len(predicted_labels) :
        StartsWith(predicted_labels[i], "I-") =>
            /\ i > 1
            /\ predicted_labels[i - 1] \in {"B-" \o From2(predicted_labels[i]),
                                           "I-" \o From2(predicted_labels[i])}

BPos(T) == {i \in 1..ZipLen : predicted_labels[i] = "B-" \o T}

\* last word of the span that the B-T at position i starts
SpanEnd(i, T) ==
    CHOOSE j \in i..ZipLen :
        /\ \A k \in (i + 1)..j : predicted_labels[k] = "I-" \o T
        /\ (j = ZipLen \/ predicted_labels[j + 1] # "I-" \o T)

ExpectedSpans(T) ==
    LET ps == SortedSeq(BPos(T))
    IN [n \in 1..Len(ps) |-> Join(" ", SubSeq(tokens, ps[n], SpanEnd(ps[n], T)))]

\* C2: for a well-formed label sequence the raw spans of a type are, in
\* document order, one span per B-T: that word and the I-T words directly
\* after it, joined by single spaces; the worked example decodes to
\* {NAME: [Jane Doe], COMPANY: [Acme Corp]}.
C2_WellFormedDecoding ==
    (dpc \in {"dedupe", "done"} /\ WellFormed) =>
        /\ \A T \in AllTypes : RawOf(T) = ExpectedSpans(T)
        /\ DOMAIN entities_with_duplicates = {T \in AllTypes : BPos(T) # {}}
        /\ (tokens = <<"Jane", "Doe", "at", "Acme", "Corp">> =>
               entities_with_duplicates =
                   ("NAME" :> <<"Jane Doe">>) @@ ("COMPANY" :> <<"Acme Corp">>))

C2_Witness ==
    /\ dpc = "done"
    /\ WellFormed
    /\ Len(predicted_labels) = 3
    /\ predicted_labels[1] = predicted_labels[2]
    /\ StartsWith(predicted_labels[1], "B-")
    /\ predicted_labels[3] = "I-" \o From2(predicted_labels[1])

\* C3: a word labelled I-T is appended to the open span when that span has
\* type T; otherwise the open span (if any) is closed into its own type's
\* list and a new span of type T starts with this word as its only member.
C3_OrphanRule ==
    [][ (dpc = "group" /\ di <= ZipLen /\ StartsWith(predicted_labels[di], "I-")) =>
           LET T == From2(predicted_labels[di]) IN
           /\ current_entity' = T
           /\ IF current_entity = T
              THEN /\ current_text' = Append(current_text, tokens[di])
                   /\ entities_with_duplicates' = entities_with_duplicates
              ELSE /\ current_text' = <<tokens[di]>>
                   /\ \A U \in AllTypes :
                         (IF U \in DOMAIN entities_with_duplicates'
                          THEN entities_with_duplicates'[U] ELSE <<>>)
                         = IF U = current_entity
                           THEN Append(RawOf(U), Join(" ", current_text))
                           ELSE RawOf(U) ]_vars

\* a mismatched continuation has just closed a span of another type
C3_Witness ==
    /\ dpc = "group"
    /\ di = 3
    /\ StartsWith(predicted_labels[1], "B-")
    /\ StartsWith(predicted_labels[2], "I-")
    /\ From2(predicted_labels[1]) # From2(predicted_labels[2])
    /\ current_text = <<tokens[2]>>
    /\ RawOf(From2(predicted_labels[1])) = <<tokens[1]>>

IsOrphanExample ==
    /\ tokens = <<"Python", "SQL">>
    /\ predicted_labels = <<"I-SKILLS", "I-SKILLS">>

\* C4 as stated: [Python, SQL] with [I-SKILLS, I-SKILLS] gives the two
\* separate entries Python and SQL.
C4_OrphanExampleTwoEntries ==
    (dpc = "done" /\ IsOrphanExample) => entities = ("SKILLS" :> <<"Python", "SQL">>)

\* C4 amended: [Python, SQL] with [I-SKILLS, I-SKILLS] gives one SKILLS
\* entry, "Python SQL": the first I-SKILLS opens the span, the second
\* continues it.
C4_OrphanExampleOneEntry ==
    (dpc = "done" /\ IsOrphanExample) => entities = ("SKILLS" :> <<"Python SQL">>)

C4_Witness == dpc = "done" /\ IsOrphanExample /\ "SKILLS" \in DOMAIN entities

\* the strings of c that no earlier string of c equals ignoring case, in order
FirstOccurrences(c) ==
    LET first == {i \in 1..Len(c) : \A j \in 1..(i - 1) : Lower(c[j]) # Lower(c[i])}
        ps == SortedSeq(first)
    IN [n \in 1..Len(ps) |-> c[ps[n]]]

\* C5: per type, the output is the list of first occurrences (ignoring
\* case) of the cleaned raw strings, in their order and casing; no two
\* output strings of a type are equal ignoring case; [Java, java, JAVA,
\* Python] gives [Java, Python].
C5_Dedup ==
    dpc = "done" =>
        /\ DOMAIN entities = DOMAIN entities_with_duplicates
        /\ \A T \in DOMAIN entities :
              /\ entities[T] = FirstOccurrences(CleanedMentions(entities_with_duplicates[T]))
              /\ \A i, j \in 1..Len(entities[T]) :
                    i # j => Lower(entities[T][i]) # Lower(entities[T][j])
        /\ (tokens = <<"Java", "java", "JAVA", "Python">> =>
               entities = ("SKILLS" :> <<"Java", "Python">>))

\* a later duplicate in other casing was dropped and a later new value kept
C5_Witness ==
    /\ dpc = "done"
    /\ \E T \in DOMAIN entities :
          /\ Len(entities_with_duplicates[T]) = 3
          /\ Len(entities[T]) = 2
          /\ entities_with_duplicates[T][1] # entities_with_duplicates[T][2]
          /\ Lower(entities_with_duplicates[T][1]) = Lower(entities_with_duplicates[T][2])

EndsWithComma(s) == Len(s) > 0 /\ Char(s, Len(s)) = ","

RECURSIVE Commas(_)
Commas(k) == IF k = 0 THEN "" ELSE "," \o Commas(k - 1)

\* s without its trailing run of commas
WithoutTrailingCommas(s) ==
    CHOOSE p \in {SubSeq(s, 1, n) : n \in 0..Len(s)} :
        ~EndsWithComma(p) /\ s = p \o Commas(Len(s) - Len(p))

\* C6 as stated: a raw span is stripped of surrounding whitespace and then
\* of exactly one trailing comma.
C6_SingleTrailingComma ==
    dpc = "done" =>
        \A T \in DOMAIN entities :
            entities[T] = FirstOccurrences(
                [i \in 1..Len(entities_with_duplicates[T]) |->
                    RStripOnce(Strip(entities_with_duplicates[T][i]), {","})])

\* C6 amended: a raw span is stripped of surrounding whitespace and then of
\* every trailing comma, so no cleaned string ends in a comma.
C6_AllTrailingCommas ==
    dpc = "done" =>
        \A T \in DOMAIN entities :
            /\ entities[T] = FirstOccurrences(
                   [i \in 1..Len(entities_with_duplicates[T]) |->
                       WithoutTrailingCommas(Strip(entities_with_duplicates[T][i]))])
            /\ \A i \in 1..Len(entities[T]) : ~EndsWithComma(entities[T][i])

\* a raw span that ends in two commas went through the cleaning
C6_Witness ==
    /\ dpc = "done"
    /\ \E T \in DOMAIN entities : \E i \in 1..Len(entities_with_duplicates[T]) :
          LET m == entities_with_duplicates[T][i]
          IN Len(m) >= 3 /\ SubSeq(m, Len(m) - 1, Len(m)) = ",,"

\* C28: every string of the result is non-empty, has no white space at its
\* ends and does not end in a comma, and deduplicating the result again
\* changes nothing.
C28_CleanMentions ==
    dpc = "done" =>
        \A T \in DOMAIN entities :
            /\ \A i \in 1..Len(entities[T]) :
                  /\ entities[T][i] /= ""
                  /\ entities[T][i] = Strip(entities[T][i])
                  /\ ~EndsWithComma(entities[T][i])
            /\ UniqueMentions(entities[T]) = entities[T]

\* C21: in the returned mapping no key maps to an empty list, and a type is
\* a key exactly when at least one word carries its B- or I- label; a type
\* without mentions is absent.
C21_NoEmptyLists ==
    dpc = "done" =>
        /\ \A T \in DOMAIN entities : Len(entities[T]) > 0
        /\ DOMAIN entities = {T \in AllTypes : LabelledPos(T, ZipLen) # {}}

\* words were labelled, one type got a key and another type has none
C21_Witness ==
    /\ dpc = "done"
    /\ Len(tokens) >= 2
    /\ "NAME" \in DOMAIN entities
    /\ "SKILLS" \notin DOMAIN entities
    /\ \E i \in 1..ZipLen : predicted_labels[i] = "O"

\* ------------------------------------------------------------------------
\* Properties of the model lifecycle
\* ------------------------------------------------------------------------
\* the statements of load_model_lazy that perform a load (lines 37-72)
LoadSection == {"L37", "L40", "L43", "L47", "L56", "L66", "L67", "L68", "L72"}

IsLazy(t) == op[t] \in {"load", "extract"}

\* thread t executes a statement in this step
Moves(t) == pc[t] # "idle" /\ pc'[t] # pc[t]

\* C7: once load_model_lazy has returned a handle and unload_model has not
\* been called since, no call performs a load (none reaches lines 37-72, so
\* no model is built and the checkpoint is not read), the globals stay as
\* they are, and every call returns that same model, tokenizer and device.
C7_LoadOnce ==
    [][ lastHandle # NoHandle =>
          /\ \A t \in Threads : IsLazy(t) => pc'[t] \notin LoadSection
          /\ gvars' = gvars
          /\ tokenizers' = tokenizers
          /\ (\A t \in Threads : IsLazy(t) \/ ~Moves(t)) => constructed' = constructed
          /\ \A t \in Threads :
                (pc[t] = "L28" /\ Moves(t)) =>
                    err'[t] = None /\ handle'[t] = lastHandle /\ lastHandle' = lastHandle ]_vars

\* two calls have returned the handle of a single load
C7_Witness ==
    /\ \A t \in Threads : op[t] = "load" /\ pc[t] = "idle" /\ handle[t] = lastHandle
    /\ lastHandle = <<1, 1, "cpu">>
    /\ constructed = 1

\* C8: at most one thread is inside the load path of load_model_lazy at any
\* time.
C8_OneLoadInFlight ==
    Cardinality({t \in Threads : IsLazy(t) /\ pc[t] \in LoadSection}) <= 1

\* C9: at most one model object is live; a model is built only while none
\* is live; a live model stops being live only in a step of unload_model
\* (so a /minedata request neither builds nor drops a model of its own).
C9_SingleHandle ==
    [][ /\ Cardinality(LiveModels') <= 1
        /\ (constructed' # constructed => LiveModels = {})
        /\ (~(LiveModels \subseteq LiveModels') =>
               \E t \in Threads : op[t] = "unload" /\ Moves(t)) ]_vars

\* C10: a call of unload_model raises nothing; when no handle is present
\* (_model is None) it leaves none present; when it returns, _model,
\* _tokenizer and _device are None and clear_memory has run; a call of
\* load_model_lazy that then finds no handle takes the load path, and what
\* the load path returns is a newly built model with its weights applied.
C10_UnloadSafe ==
    [][ \A t \in Threads :
          /\ (op[t] = "unload" /\ Moves(t)) =>
                /\ err'[t] = None
                /\ (_model = NoneRef => _model' = NoneRef)
                /\ (pc'[t] = "idle" =>
                       /\ _model' = NoneRef
                       /\ _tokenizer' = NoneRef
                       /\ _device' = None
                       /\ reclaimed'[t])
          /\ (pc[t] = "L27" /\ Moves(t) /\ _model = NoneRef) => pc'[t] = "L37"
          /\ (pc[t] = "L74" /\ Moves(t)) =>
                /\ handle'[t] = <<constructed, tokenizers, "cpu">>
                /\ constructed \in applied ]_vars

\* unload_model has returned after being called with nothing loaded: a load
\* had failed on a missing checkpoint, leaving only the tokenizer behind
C10_Witness ==
    /\ \E t \in Threads : op[t] = "unload" /\ pc[t] = "idle" /\ reclaimed[t] /\ err[t] = None
    /\ gvars = <<NoneRef, NoneRef, None>>
    /\ tokenizers = 1
    /\ constructed = 0

\* C11: a call of load_model_lazy that finds no handle goes through lines
\* 37-40 to the existence test without a handle appearing; while the
\* checkpoint path does not exist the test raises the not-found error, the
\* caller gets no handle and _model stays None, so the next call fails the
\* same way.
C11_MissingCheckpoint ==
    [][ \A t \in Threads :
          /\ (IsLazy(t) /\ pc[t] \in {"L37", "L40", "L43"}) =>
                _model = NoneRef /\ handle[t] = NoHandle
          /\ (pc[t] = "L27" /\ Moves(t) /\ _model = NoneRef) => pc'[t] = "L37"
          /\ (pc[t] = "L37" /\ Moves(t)) => pc'[t] = "L40"
          /\ (pc[t] = "L40" /\ Moves(t)) => pc'[t] = "L43"
          /\ (pc[t] = "L43" /\ Moves(t) /\ ckpt = "missing") =>
                /\ err'[t] = "FileNotFoundError"
                /\ pc'[t] = (IF op[t] = "extract" THEN "E199" ELSE "idle")
                /\ handle'[t] = NoHandle
                /\ _model' = NoneRef
                /\ constructed' = constructed
                /\ lastHandle' = lastHandle ]_vars

\* a second call has failed on the missing checkpoint
C11_Witness ==
    /\ \A t \in Threads :
          op[t] = "load" /\ pc[t] = "idle" /\ err[t] = "FileNotFoundError" /\ handle[t] = NoHandle
    /\ ckpt = "missing"
    /\ _model = NoneRef
    /\ tokenizers = 2

\* C12: while the checkpoint's weights do not fit the model, no call of
\* load_model_lazy returns a handle whose model did not get its weights.
C12_BadCheckpointNoHandle ==
    [][ \A t \in Threads :
          (IsLazy(t) /\ pc[t] \in {"L28", "L74"} /\ Moves(t) /\ ckpt = "bad" /\ err'[t] = None)
              => _model \in applied ]_vars
\* C19: an extraction call, and a call of a function wrapped by
\* memory_monitor, has returned or raised only after a reclaim pass that
\* came after its last work.
C19_ReclaimBeforeReturn ==
    \A t \in Threads :
        (op[t] \in {"extract", "monitored"} /\ pc[t] = "idle") => reclaimed[t]

\* an extraction has failed in the load and a wrapped function has raised
C19_Witness ==
    \E t, u \in Threads :
        /\ op[t] = "extract" /\ pc[t] = "idle" /\ err[t] = "FileNotFoundError"
        /\ op[u] = "monitored" /\ pc[u] = "idle" /\ err[u] = "Exception"
        /\ reclaimed[t] /\ reclaimed[u]

\* the forward pass of thread t's extraction has failed
InferenceFailed(t) ==
    /\ op[t] = "extract"
    /\ pc[t] \in {"E199", "E200"}
    /\ err[t] = "RuntimeError"
    /\ handle[t] # NoHandle

\* C20: a failure of the forward pass goes to the except block, the reclaim
\* pass runs, the same error leaves the call, and the globals and the loaded
\* weights stay as they are; the return statement is reached without an error
\* only.
C20_FailurePropagates ==
    [][ \A t \in Threads :
          /\ (pc[t] = "E100" /\ Moves(t) /\ err'[t] # None) =>
                pc'[t] = "E199" /\ gvars' = gvars /\ applied' = applied
          /\ (InferenceFailed(t) /\ Moves(t)) =>
                /\ err'[t] = "RuntimeError"
                /\ gvars' = gvars /\ applied' = applied
                /\ \/ pc[t] = "E199" /\ pc'[t] = "E200" /\ reclaimed'[t]
                   \/ pc[t] = "E200" /\ pc'[t] = "idle" /\ reclaimed[t]
          /\ pc'[t] = "E195" => err'[t] = None ]_vars

\* the forward pass failed on a loaded model, the error has reached the
\* caller and the model is still loaded
C20_Witness ==
    \E t \in Threads :
        /\ op[t] = "extract" /\ pc[t] = "idle" /\ err[t] = "RuntimeError" /\ reclaimed[t]
        /\ _model # NoneRef /\ _model \in applied
        /\ lastHandle = <<_model, _tokenizer, _device>>

\* the handle h has a model, a tokenizer and a device
Complete(h) == h[1] \notin {NoneRef, Unbound} /\ h[2] \notin {NoneRef, Unbound} /\ h[3] # None

\* C26: when the test of line 27 finds a model, the checkpoint weights have
\* been applied to it and the tokenizer and the device are set; a handle that
\* load_model_lazy returns holds a model with its weights applied, whatever
\* loads succeeded or failed before and whatever other callers do meanwhile.
C26_HandleComplete ==
    [][ \A t \in Threads :
          /\ (IsLazy(t) /\ pc[t] = "L27" /\ pc'[t] = "L28") =>
                _model \in applied /\ Complete(<<_model, _tokenizer, _device>>)
          /\ (IsLazy(t) /\ pc[t] \in {"L28", "L74"} /\ Moves(t) /\ err'[t] = None) =>
                handle'[t][1] \in applied /\ Complete(handle'[t]) ]_vars

\* C27: while unload_model runs in another thread, a call of load_model_lazy
\* returns a handle with a model, a tokenizer and a device or fails with a
\* load error (never on a global that unload_model has cleared), and an
\* extraction works with the complete handle it obtained.
C27_UnloadRace ==
    [][ \A t \in Threads :
          (IsLazy(t) /\ Moves(t)) =>
              /\ err'[t] \in {None, "FileNotFoundError", "RuntimeError", "KeyError"}
              /\ (pc[t] \in {"L28", "L74"} /\ err'[t] = None) => Complete(handle'[t])
              /\ pc[t] = "E100" => Complete(handle[t]) ]_vars

\* ------------------------------------------------------------------------
\* Tokenize, predict and align (extract_resume_entities, lines 89-143),
\* followed by the grouping and deduplication above
\* ------------------------------------------------------------------------
MAX_LEN == 128

\* largest number of sub-word units the tokenizer makes of one drawn word
MaxPieces == 2

\* the longest drawn text has MAX_LEN - 2 + MaxOver words
MaxOver == 2

\* largest shift of the drawn prediction patterns
MaxShift == 1

\* re.finditer(r'\S+', s): the maximal runs of non-whitespace characters, in
\* order
WordStarts(s) ==
    {i \in 1..Len(s) : ~IsSpace(Char(s, i)) /\ (i = 1 \/ IsSpace(Char(s, i - 1)))}

WordEnd(s, i) ==
    CHOOSE j \in i..Len(s) :
        /\ \A k \in i..j : ~IsSpace(Char(s, k))
        /\ j = Len(s) \/ IsSpace(Char(s, j + 1))

FindAll(s) ==
    LET starts == WordStarts(s)
    IN  [k \in 1..Cardinality(starts) |->
            LET i == CHOOSE i \in starts : Cardinality({j \in starts : j < i}) = k - 1
            IN  SubSeq(s, i, WordEnd(s, i))]

\* s[:n]
Prefix(s, n) == SubSeq(s, 1, IF Len(s) < n THEN Len(s) ELSE n)

\* lines 96-97
LimitTokens(toks) == IF Len(toks) > MAX_LEN - 2 THEN Prefix(toks, MAX_LEN - 2) ELSE toks

RECURSIVE WordPieces(_, _, _)
\* the owner (0-based word index) of every sub-word unit of words a..b, in
\* order, when word i is split into pieces[i] units
WordPieces(pieces, a, b) ==
    IF a > b THEN <<>>
    ELSE IF a = b THEN [k \in 1..pieces[a] |-> a - 1]
    ELSE LET m == (a + b) \div 2
         IN  WordPieces(pieces, a, m) \o WordPieces(pieces, m + 1, b)

\* word_ids(0) of tokenizer(tokens, is_split_into_words=True,
\* padding='max_length', truncation=True, max_length=MAX_LEN): [CLS], the
\* first MAX_LEN - 2 units, [SEP], padding up to MAX_LEN positions
WordIds(pieces) ==
    LET kept == Prefix(WordPieces(pieces, 1, Len(pieces)), MAX_LEN - 2)
    IN  <<NoWord>> \o kept \o [k \in 1..(MAX_LEN - 1 - Len(kept)) |-> NoWord]

\* body of the loop of lines 131-140
AlignBody(plabels, prev, i, word_idx) ==
    IF word_idx = NoWord \/ word_idx = prev
    THEN [predicted_labels |-> plabels, previous_word_idx |-> prev]
    ELSE [predicted_labels |->
              Append(plabels, IF i < Len(predictions) THEN labels[predictions[i + 1] + 1]
                              ELSE "O"),
          previous_word_idx |-> word_idx]

\* ---- inputs --------------------------------------------------------------
\* texts of n distinct words, short ones and ones around the word budget
WordCounts == (1..MaxWords) \cup ((MAX_LEN - 3)..(MAX_LEN - 2 + MaxOver))

RECURSIVE TextOfWords(_, _)
\* "w<a> w<a+1> ... w<b>"
TextOfWords(a, b) ==
    IF a > b THEN ""
    ELSE IF a = b THEN "w" \o ToString(a)
    ELSE LET m == (a + b) \div 2
         IN  TextOfWords(a, m) \o " " \o TextOfWords(m + 1, b)

ResumeTexts == {TextOfWords(1, n) : n \in WordCounts}

\* the tokenizer splits every word into one unit, except one word that it
\* splits into 0..MaxPieces units (a word of characters it drops gives none)
PieceChoices(n) ==
    {[i \in 1..n |-> IF i = j THEN c ELSE 1] : j \in {1, 2, n} \cap (1..n), c \in 0..MaxPieces}

\* label ids the model predicts per position: a different label at each
\* position from the one before
PredictionChoices ==
    {[p \in 1..MAX_LEN |-> (p + s) % Len(labels)] : s \in 0..MaxShift}

\* ---- actions -------------------------------------------------------------
\* lines 90-92
FindTokens ==
    /\ dpc = "tokens"
    /\ tokens' = FindAll(resume_text)
    /\ dpc' = "limit"
    /\ UNCHANGED <<predicted_labels, di, current_entity, current_text,
                   entities_with_duplicates, entities, xvars, lvars>>

\* lines 95-97
TruncateTokens ==
    /\ dpc = "limit"
    /\ tokens' = LimitTokens(tokens)
    /\ dpc' = "tokenize"
    /\ UNCHANGED <<predicted_labels, di, current_entity, current_text,
                   entities_with_duplicates, entities, xvars, lvars>>

\* lines 100-108
Tokenize ==
    /\ dpc = "tokenize"
    /\ \E pieces \in PieceChoices(Len(tokens)) : word_ids' = WordIds(pieces)
    /\ dpc' = "predict"
    /\ UNCHANGED <<tokens, predicted_labels, di, current_entity, current_text,
                   entities_with_duplicates, entities,
                   resume_text, predictions, idx, previous_word_idx, nvars, pvars, wvars, lvars>>

\* lines 111-129
Predict ==
    /\ dpc = "predict"
    /\ predictions' \in PredictionChoices
    /\ predicted_labels' = <<>>
    /\ previous_word_idx' = NoWord
    /\ idx' = 0
    /\ dpc' = "align"
    /\ UNCHANGED <<tokens, di, current_entity, current_text,
                   entities_with_duplicates, entities, resume_text, word_ids, nvars, pvars, wvars, lvars>>

\* one iteration of the loop of lines 131-140
AlignStep ==
    /\ dpc = "align"
    /\ idx < Len(word_ids)
    /\ LET r == AlignBody(predicted_labels, previous_word_idx, idx, word_ids[idx + 1])
       IN /\ predicted_labels' = r.predicted_labels
          /\ previous_word_idx' = r.previous_word_idx
    /\ idx' = idx + 1
    /\ UNCHANGED <<tokens, dpc, di, current_entity, current_text,
                   entities_with_duplicates, entities,
                   resume_text, word_ids, predictions, nvars, pvars, wvars, lvars>>

\* lines 143-148
TruncatePredictions ==
    /\ dpc = "align"
    /\ idx >= Len(word_ids)
    /\ predicted_labels' = Prefix(predicted_labels, Len(tokens))
    /\ entities_with_duplicates' = EmptyDict
    /\ current_entity' = None
    /\ current_text' = <<>>
    /\ di' = 1
    /\ dpc' = "group"
    /\ UNCHANGED <<tokens, entities, xvars, lvars>>

AlignInit ==
    /\ resume_text \in ResumeTexts
    /\ word_ids = <<>>
    /\ predictions = <<>>
    /\ idx = 0
    /\ previous_word_idx = NoWord
    /\ tokens = <<>>
    /\ predicted_labels = <<>>
    /\ dpc = "tokens"
    /\ di = 1
    /\ current_entity = None
    /\ current_text = <<>>
    /\ entities_with_duplicates = EmptyDict
    /\ entities = EmptyDict
    /\ NormIdle
    /\ PdfIdle
    /\ WebIdle
    /\ AuthIdle
    /\ LifeFresh
    /\ ckpt = "ok"

AlignNext ==
    \/ FindTokens \/ TruncateTokens \/ Tokenize \/ Predict \/ AlignStep
    \/ TruncatePredictions \/ GroupStep \/ AddLastEntity \/ RemoveDuplicates

AlignSpec == AlignInit /\ [][AlignNext]_vars
\* ---- properties of tokenize / predict / align ------------------------------
\* the alignment of a tokenized text is over
Aligned == dpc \in {"group", "dedupe", "done"} /\ word_ids /= <<>>

\* min(len(words), MAX_LEN - 2)
RetainedCount ==
    LET n == Len(FindAll(resume_text))
    IN  IF n < MAX_LEN - 2 THEN n ELSE MAX_LEN - 2

\* first sub-word position (1-based) owned by the word with 0-based index w
IsFirstPosition(p, w) ==
    /\ word_ids[p] = w
    /\ \A q \in 1..(p - 1) : word_ids[q] /= w

\* the words of the mentions of the result
EntityWords ==
    UNION {UNION {Range(SplitWords(m, "")) : m \in Range(entities[T])} :
              T \in DOMAIN entities}

\* C13: whatever way the tokenizer splits the words, the labels paired with
\* the words are exactly min(len(words), MAX_LEN - 2) many, one per retained
\* word.
C13_OneLabelPerWord ==
    Aligned => /\ Len(tokens) = RetainedCount
               /\ Len(predicted_labels) = RetainedCount

\* C14: the label paired with a word is the prediction at the first sub-word
\* position that the word owns.
C14_FirstSubwordAlignment ==
    Aligned =>
        \A i \in 1..ZipLen :
            \E p \in 1..Len(word_ids) :
                /\ IsFirstPosition(p, i - 1)
                /\ predicted_labels[i] = labels[predictions[p] + 1]

\* C15: of a text with more than MAX_LEN - 2 words exactly the first
\* MAX_LEN - 2 are retained, each of them has its label, and the mentions of
\* the result are made of retained words only.
C15_Truncation ==
    (Aligned /\ Len(FindAll(resume_text)) > MAX_LEN - 2) =>
        /\ tokens = Prefix(FindAll(resume_text), MAX_LEN - 2)
        /\ Len(predicted_labels) = MAX_LEN - 2
        /\ dpc = "done" => EntityWords \subseteq Range(tokens)

\* the entity types as the specification spells them
UnderscoreTypes ==
    {"COLLEGE_NAME", "COMPANY", "DEGREE", "DESIGNATION", "EMAIL", "LOCATION", "NAME", "SKILLS"}

\* the entity types as the label list of the program spells them
SpacedTypes ==
    {"COLLEGE NAME", "COMPANY", "DEGREE", "DESIGNATION", "EMAIL", "LOCATION", "NAME", "SKILLS"}

\* O, B-<TYPE> and I-<TYPE> for the types of S
LabelsOver(S) == {"O"} \cup {"B-" \o T : T \in S} \cup {"I-" \o T : T \in S}

\* C22 as stated: every key of the result is one of COLLEGE_NAME, COMPANY,
\* DEGREE, DESIGNATION, EMAIL, LOCATION, NAME, SKILLS and the label
\* vocabulary is O plus B- and I- of these eight types, 17 labels.
C22_UnderscoreVocabulary ==
    dpc = "done" =>
        /\ DOMAIN entities \subseteq UnderscoreTypes
        /\ Range(labels) = LabelsOver(UnderscoreTypes)
        /\ Len(labels) = 17

\* C22 amended: every key of the result is one of COLLEGE NAME (written
\* with a space), COMPANY, DEGREE, DESIGNATION, EMAIL, LOCATION, NAME,
\* SKILLS and the label vocabulary is O plus B- and I- of these eight
\* types, 17 different labels.
C22_SpacedVocabulary ==
    dpc = "done" =>
        /\ DOMAIN entities \subseteq SpacedTypes
        /\ Range(labels) = LabelsOver(SpacedTypes)
        /\ Len(labels) = 17
        /\ Cardinality(Range(labels)) = 17

\* the model predicted the college type for a word and the result has its key
C22_Witness ==
    /\ dpc = "done"
    /\ word_ids /= <<>>
    /\ "COLLEGE NAME" \in DOMAIN entities
    /\ Len(entities["COLLEGE NAME"]) > 0
\* ------------------------------------------------------------------------
\* Text normalization (minegold.py). Texts are ASCII strings; the regular
\* expressions are computed character by character as re.sub does:
\* leftmost match first, greedy quantifiers, matches do not overlap.
\* ------------------------------------------------------------------------
Digits == {"0", "1", "2", "3", "4", "5", "6", "7", "8", "9"}

Letters ==
    {Char(LowerAlphabet, i) : i \in 1..Len(LowerAlphabet)} \cup
    {Char(UpperAlphabet, i) : i \in 1..Len(UpperAlphabet)}

\* \w
WordChars == Letters \cup Digits \cup {"_"}

\* \s
SpaceChars == {" ", "\t", "\n", "\r", "\f"}

\* the character at position i, "" outside the string
At(s, i) == IF i >= 1 /\ i <= Len(s) THEN Char(s, i) ELSE ""

\* \b at the gap before position i
Boundary(s, i) == (At(s, i - 1) \in WordChars) /= (At(s, i) \in WordChars)

\* length of the longest run of characters of C that starts at position i
Run(s, i, C) ==
    LET stops == {j \in i..Len(s) : Char(s, j) \notin C}
    IN  IF i > Len(s) THEN 0
        ELSE IF stops = {} THEN Len(s) - i + 1
        ELSE (CHOOSE j \in stops : \A k \in stops : j <= k) - i

\* length of the longest run of characters outside C that starts at position i
RunNot(s, i, C) ==
    LET stops == {j \in i..Len(s) : Char(s, j) \in C}
    IN  IF i > Len(s) THEN 0
        ELSE IF stops = {} THEN Len(s) - i + 1
        ELSE (CHOOSE j \in stops : \A k \in stops : j <= k) - i

\* the literal lit stands at position i
LitAt(s, i, lit) == i + Len(lit) - 1 <= Len(s) /\ SubSeq(s, i, i + Len(lit) - 1) = lit

\* the same under re.IGNORECASE (lit is lower case)
LitAtIgnoreCase(s, i, lit) ==
    i + Len(lit) - 1 <= Len(s) /\ Lower(SubSeq(s, i, i + Len(lit) - 1)) = lit

\* the largest k in lo..hi with \b after the k-th character from position i,
\* 0 if there is none
LastBoundary(s, i, lo, hi) ==
    LET ks == {k \in lo..hi : Boundary(s, i + k)}
    IN  IF ks = {} THEN 0 ELSE CHOOSE k \in ks : \A j \in ks : j <= k

\* ---- length of the match of each pattern at position i, 0: no match -----
\* (\w+)-\s*\n\s*(\w+)
MatchHyphenBreak(s, i) ==
    LET w1 == Run(s, i, WordChars)
        ws == Run(s, i + w1 + 1, SpaceChars)
        w2 == Run(s, i + w1 + 1 + ws, WordChars)
    IN  IF /\ w1 > 0
           /\ At(s, i + w1) = "-"
           /\ \E k \in (i + w1 + 1)..(i + w1 + ws) : Char(s, k) = "\n"
           /\ w2 > 0
        THEN w1 + 1 + ws + w2 ELSE 0

\* \s+-\s+
MatchSpacedHyphen(s, i) ==
    LET a == Run(s, i, SpaceChars)
        b == Run(s, i + a + 1, SpaceChars)
    IN  IF a > 0 /\ At(s, i + a) = "-" /\ b > 0 THEN a + 1 + b ELSE 0

\* \bpage\s*\d+\b
MatchPage(s, i) ==
    LET ws == Run(s, i + 4, SpaceChars)
        ds == Run(s, i + 4 + ws, Digits)
    IN  IF /\ Boundary(s, i)
           /\ LitAtIgnoreCase(s, i, "page")
           /\ ds > 0
           /\ Boundary(s, i + 4 + ws + ds)
        THEN 4 + ws + ds ELSE 0

\* \bconfidential\b
MatchConfidential(s, i) ==
    IF Boundary(s, i) /\ LitAtIgnoreCase(s, i, "confidential") /\ Boundary(s, i + 12)
    THEN 12 ELSE 0

\* \b\d{1,2}/\d{1,2}/\d{4}\b
MatchDate(s, i) ==
    LET d1 == Run(s, i, Digits)
        d2 == Run(s, i + d1 + 1, Digits)
        d3 == Run(s, i + d1 + d2 + 2, Digits)
    IN  IF /\ Boundary(s, i)
           /\ d1 \in 1..2 /\ At(s, i + d1) = "/"
           /\ d2 \in 1..2 /\ At(s, i + d1 + 1 + d2) = "/"
           /\ d3 = 4 /\ Boundary(s, i + d1 + d2 + 6)
        THEN d1 + d2 + 6 ELSE 0

\* \b(?:email|phone|http[s]?://)\S+\b
MatchContact(s, i) ==
    LET pre == IF LitAt(s, i, "email") \/ LitAt(s, i, "phone") THEN 5
               ELSE IF LitAt(s, i, "https://") THEN 8
               ELSE IF LitAt(s, i, "http://") THEN 7
               ELSE 0
        k == LastBoundary(s, i + pre, 1, RunNot(s, i + pre, SpaceChars))
    IN  IF Boundary(s, i) /\ pre > 0 /\ k > 0 THEN pre + k ELSE 0

\* \b[A-Za-z0-9._%+-]+@[A-Za-z0-9.-]+\.[A-Z|a-z]{2,}\b
MatchEmail(s, i) ==
    LET loc  == Run(s, i, Letters \cup Digits \cup {".", "_", "%", "+", "-"})
        at   == i + loc
        dom  == Run(s, at + 1, Letters \cup Digits \cup {".", "-"})
        \* length of the top-level part after a dot at position d, 0 if none
        tld(d) == LastBoundary(s, d + 1, 2, Run(s, d + 1, Letters \cup {"|"}))
        dots == {d \in (at + 2)..(at + dom) : Char(s, d) = "." /\ tld(d) > 0}
        dot  == CHOOSE d \in dots : \A e \in dots : e <= d
    IN  IF Boundary(s, i) /\ loc > 0 /\ At(s, at) = "@" /\ dots /= {}
        THEN dot + tld(dot) - i + 1 ELSE 0

\* http[s]?://(?:[a-zA-Z]|[0-9]|[$-_@.&+]|[!*\\(\\),]|(?:%[0-9a-fA-F][0-9a-fA-F]))+
\* ; $-_ is the range of characters from $ to _
MatchUrl(s, i) ==
    LET pre == IF LitAt(s, i, "https://") THEN 8
               ELSE IF LitAt(s, i, "http://") THEN 7
               ELSE 0
        n == Run(s, i + pre,
                 Letters \cup Digits \cup
                 {"$", "%", "&", "'", "(", ")", "*", "+", ",", "-", ".", "/", ":", ";",
                  "<", "=", ">", "?", "@", "[", "\\", "]", "^", "_", "!"})
    IN  IF pre > 0 /\ n > 0 THEN pre + n ELSE 0

MatchLen(pattern, s, i) ==
    CASE pattern = "hyphen_break"  -> MatchHyphenBreak(s, i)
      [] pattern = "spaced_hyphen" -> MatchSpacedHyphen(s, i)
      [] pattern = "whitespace"    -> Run(s, i, SpaceChars)
      [] pattern = "page"          -> MatchPage(s, i)
      [] pattern = "confidential"  -> MatchConfidential(s, i)
      [] pattern = "date"          -> MatchDate(s, i)
      \* [_\-\|/+~*=]{2,}
      [] pattern = "symbol_run"    ->
             LET n == Run(s, i, {"_", "-", "|", "/", "+", "~", "*", "="})
             IN  IF n >= 2 THEN n ELSE 0
      \* [^\w\s@.,!?&%$#()\-]
      [] pattern = "special"       ->
             IF Char(s, i) \notin WordChars \cup SpaceChars \cup
                                  {"@", ".", ",", "!", "?", "&", "%", "$", "#", "(", ")", "-"}
             THEN 1 ELSE 0
      [] pattern = "contact"       -> MatchContact(s, i)
      [] pattern = "email"         -> MatchEmail(s, i)
      [] pattern = "url"           -> MatchUrl(s, i)
      \* the four bullet glyphs: none of them is an ASCII character
      [] pattern = "bullet"        -> Run(s, i, {})
      \* \d{10,}
      [] pattern = "long_number"   ->
             LET n == Run(s, i, Digits) IN IF n >= 10 THEN n ELSE 0

\* what the match of n characters at position i is replaced with
Replacement(pattern, s, i, n) ==
    CASE pattern = "hyphen_break" ->
             LET w1 == Run(s, i, WordChars)
                 ws == Run(s, i + w1 + 1, SpaceChars)
             IN  SubSeq(s, i, i + w1 - 1) \o SubSeq(s, i + w1 + 1 + ws, i + n - 1)
      [] pattern \in {"spaced_hyphen", "whitespace", "symbol_run", "bullet"} -> " "
      [] OTHER -> ""

\* the element of a one-element set (binds a computed value to a name)
The(S) == CHOOSE v \in S : TRUE

RECURSIVE Sub(_, _, _)
\* re.sub(pattern, replacement, s), from position i on: the text up to the
\* next match is kept, the match is replaced, the search goes on after it
Sub(pattern, s, i) ==
    LET starts == {j \in i..Len(s) : MatchLen(pattern, s, j) > 0}
    IN  IF starts = {} THEN SubSeq(s, i, Len(s))
        ELSE The({The({SubSeq(s, i, j - 1) \o Replacement(pattern, s, j, n)
                                          \o Sub(pattern, s, j + n) :
                          n \in {MatchLen(pattern, s, j)}}) :
                     j \in {CHOOSE j \in starts : \A k \in starts : j <= k}})

\* ---- the cleaning steps ----------------------------------------------------
\* the bound of the two quantifiers [\s\S]{0,50} of the fourth header pattern
ResumeWindow == 50

\* the end position of the match of ^[\s\S]{0,50}resume[\s\S]{0,50}$
\* (re.IGNORECASE, no re.MULTILINE), 0 if there is none: $ holds at the end
\* of the string and before a newline that ends it
MatchResumeLine(s) ==
    LET n == Len(s)
        stops == {n} \cup (IF n > 0 /\ Char(s, n) = "\n" THEN {n - 1} ELSE {})
        ends == {e \in stops :
                    \E j \in 1..(e - 5) :
                        /\ LitAtIgnoreCase(s, j, "resume")
                        /\ j - 1 <= ResumeWindow
                        /\ e - (j + 5) <= ResumeWindow}
    IN  IF ends = {} THEN 0 ELSE CHOOSE e \in ends : \A f \in ends : f <= e

remove_control_characters_raises(t) == t /= ""

handle_hyphenation(t) ==
    The({Sub("spaced_hyphen", u, 1) : u \in {Sub("hyphen_break", t, 1)}})

clean_whitespace(t) == The({Strip(u) : u \in {Sub("whitespace", t, 1)}})

clean_special_chars(t) ==
    The({Sub("special", u, 1) : u \in {Sub("symbol_run", t, 1)}})

RECURSIVE SubEach(_, _)
\* for pattern in patterns: text = re.sub(pattern, '', text)
SubEach(patterns, t) ==
    IF patterns = <<>> THEN t
    ELSE The({SubEach(Tail(patterns), u) : u \in {Sub(Head(patterns), t, 1)}})

remove_header_footer(t) ==
    The({SubSeq(u, MatchResumeLine(u) + 1, Len(u)) :
            u \in {SubEach(<<"page", "confidential", "date">>, t)}})

\* len(cleaning_steps)
NSteps == 11

\* cleaning_steps[k](t) raises
StepRaises(k, t) == k = 1 /\ remove_control_characters_raises(t)

\* the value cleaning_steps[k](t) returns when it does not raise
StepValue(k, t) ==
    CASE k = 1  -> ""
      [] k = 2  -> handle_hyphenation(t)
      [] k = 3  -> t
      [] k = 4  -> clean_whitespace(t)
      [] k = 5  -> remove_header_footer(t)
      [] k = 6  -> clean_special_chars(t)
      [] k = 7  -> Sub("contact", t, 1)
      [] k = 8  -> Sub("email", t, 1)
      [] k = 9  -> Sub("url", t, 1)
      [] k = 10 -> Sub("bullet", t, 1)
      [] k = 11 -> Sub("long_number", t, 1)

\* slip: the text is lost when a step raises
CleaningBody_LoseText(k, t) == IF StepRaises(k, t) THEN "" ELSE StepValue(k, t)

\* body of the loop of lines 65-70: the value of text after step k
CleaningBody(k, t) == IF StepRaises(k, t) THEN t ELSE StepValue(k, t)

RECURSIVE CleaningLoop(_, _)
CleaningLoop(t, k) ==
    IF k > NSteps THEN t
    ELSE The({CleaningLoop(u, k + 1) : u \in {CleaningBody(k, t)}})

clean_text_pipeline(t) == CleaningLoop(t, 1)
\* ---- inputs --------------------------------------------------------------
\* longest drawn text, in pieces
MaxAtoms == 3

\* pieces of the drawn texts: a word, white space, a hyphen, header and
\* footer words, a long number, an e-mail address
Atoms == {"a", " ", "\n", "-", "confidential", "Resume", "1234567890", "a@b.co"}

\* texts in which a later step removes something from between two spaces
NormExamples ==
    {"a confidential b", "a a@b.co b", "a 1234567890 b", "a -- b", "a page 2 b"}

RECURSIVE AtomTexts(_)
AtomTexts(k) ==
    IF k = 0 THEN {""}
    ELSE LET shorter == AtomTexts(k - 1)
         IN  shorter \cup {t \o a : t \in shorter, a \in Atoms}

NormTexts == NormExamples \cup AtomTexts(MaxAtoms)

\* ---- actions -------------------------------------------------------------
\* one iteration of the loop of lines 65-70: the step runs, and when it
\* raises the exception is caught and text is left as it was
CleaningStep ==
    /\ step \in 1..NSteps
    /\ text' = CleaningBody(step, text)
    /\ failed' = IF StepRaises(step, text) THEN failed \cup {step} ELSE failed
    /\ step' = step + 1
    /\ UNCHANGED <<input_text, call_no, normalized, dvars, avars, pvars, wvars, lvars>>

\* line 72 returns text, and the caller hands it to clean_text_pipeline again
\* (as process_pdf does at line 102 with what line 91 appended)
NormalizeAgain ==
    /\ step = NSteps + 1
    /\ call_no = 1
    /\ normalized' = text
    /\ input_text' = text
    /\ failed' = {}
    /\ step' = 1
    /\ call_no' = 2
    /\ UNCHANGED <<text, dvars, avars, pvars, wvars, lvars>>

NormInit ==
    /\ input_text \in NormTexts
    /\ text = input_text
    /\ step = 1
    /\ failed = {}
    /\ call_no = 1
    /\ normalized = None
    /\ DecIdle
    /\ AlignIdle
    /\ PdfIdle
    /\ WebIdle
    /\ AuthIdle
    /\ LifeFresh
    /\ ckpt = "ok"

NormNext == CleaningStep \/ NormalizeAgain

NormSpec == NormInit /\ [][NormNext]_vars

\* ---- properties of clean_text_pipeline -------------------------------------
\* C17: no step of the pipeline ends the call: the step after it comes next,
\* and it gets the text the step returned or, when the step raised, the text
\* the step was given.
C17_FaultIsolation ==
    [][ (step >= 1 /\ step <= NSteps) =>
           /\ step' = step + 1
           /\ StepRaises(step, text) => text' = text /\ failed' = failed \cup {step}
           /\ ~StepRaises(step, text) => text' = StepValue(step, text) /\ failed' = failed ]_vars

\* a call in which the first step raised and later steps changed the text
C17_Witness ==
    /\ call_no = 1
    /\ step = NSteps + 1
    /\ failed = {1}
    /\ text /= input_text

\* C18: the second call returns what it was given.
C18_Idempotent == (call_no = 2 /\ step = NSteps + 1) => text = normalized

\* the control characters a text of the model can hold
ControlChars == {"\t", "\n", "\r", "\f"}

\* no control character, no two white-space characters in a row, no white
\* space at either end
IsCleanedText(s) ==
    /\ \A i \in 1..Len(s) : Char(s, i) \notin ControlChars
    /\ \A i \in 1..(Len(s) - 1) : ~(IsSpace(Char(s, i)) /\ IsSpace(Char(s, i + 1)))
    /\ s = Strip(s)

\* C25: the string clean_text_pipeline returns, on a first pass and on the
\* second pass over its own result, has no control character, no run of two
\* or more white-space characters and no white space at its ends.
C25_CleanedText == step = NSteps + 1 => IsCleanedText(text)
\* ------------------------------------------------------------------------
\* process_pdf (minegold.py, lines 74-106)
\* ------------------------------------------------------------------------
\* most pages of a drawn document
MaxPages == 2

\* raw text of a page: nothing, white space, words, and texts of which the
\* cleaning steps leave nothing
PageTexts == {"", " \n", "a", "a b", "- a", "confidential", "Resume a", "--"}

Documents ==
    {[opens |-> FALSE, pages |-> <<>>]} \cup
    UNION {[opens : {TRUE}, pages : [1..k -> PageTexts]] : k \in 0..MaxPages}

\* line 86: open(pdf_path, 'rb'); a failure goes through lines 104-106
OpenPdf ==
    /\ ppc = "open"
    /\ IF pdf.opens
       THEN /\ ppc' = "pages"
            /\ page_no' = 1
            /\ perr' = perr
       ELSE /\ ppc' = "raised"
            /\ perr' = "FileNotFoundError"
            /\ page_no' = page_no
    /\ UNCHANGED <<pdf, output_stream, full_text, final_text, dvars, avars, nvars, wvars, lvars>>

\* lines 87-93: one page
ProcessPage ==
    /\ ppc = "pages"
    /\ page_no <= Len(pdf.pages)
    /\ LET page_text == output_stream \o pdf.pages[page_no]
       IN  full_text' = IF Strip(page_text) /= ""
                        THEN Append(full_text, clean_text_pipeline(page_text))
                        ELSE full_text
    /\ output_stream' = ""
    /\ page_no' = page_no + 1
    /\ UNCHANGED <<pdf, ppc, final_text, perr, dvars, avars, nvars, wvars, lvars>>

\* lines 95-102, and 104-106 for the ValueError
FinishPdf ==
    /\ ppc = "pages"
    /\ page_no > Len(pdf.pages)
    /\ IF full_text = <<>>
       THEN /\ perr' = "ValueError"
            /\ ppc' = "raised"
            /\ final_text' = final_text
       ELSE /\ final_text' = clean_text_pipeline(Join(" ", full_text))
            /\ ppc' = "returned"
            /\ perr' = perr
    /\ UNCHANGED <<pdf, page_no, output_stream, full_text, dvars, avars, nvars, wvars, lvars>>

PdfInit ==
    /\ pdf \in Documents
    /\ ppc = "open"
    /\ page_no = 0
    /\ output_stream = ""
    /\ full_text = <<>>
    /\ final_text = None
    /\ perr = None
    /\ DecIdle
    /\ AlignIdle
    /\ NormIdle
    /\ WebIdle
    /\ AuthIdle
    /\ LifeFresh
    /\ ckpt = "ok"

PdfNext == OpenPdf \/ ProcessPage \/ FinishPdf

PdfSpec == PdfInit /\ [][PdfNext]_vars

\* ---- properties of process_pdf ---------------------------------------------
\* C16: process_pdf returns a string only for a file that opens and has a page
\* whose text is not empty after normalization.
C16_NoTextFails ==
    ppc = "returned" =>
        /\ pdf.opens
        /\ \E i \in 1..Len(pdf.pages) : clean_text_pipeline(pdf.pages[i]) /= ""

\* the pages whose raw text is not blank and whose normalized text is not empty
KeptPages ==
    {i \in 1..Len(pdf.pages) :
        Strip(pdf.pages[i]) /= "" /\ clean_text_pipeline(pdf.pages[i]) /= ""}

\* their normalized texts in page order, joined by single spaces
JoinOfKeptPages ==
    LET ps == SortedSeq(KeptPages)
    IN  Join(" ", [k \in 1..Len(ps) |-> clean_text_pipeline(pdf.pages[ps[k]])])

\* C24: for a PDF with a page of non-empty normalized text, process_pdf
\* returns the normalization of the single-space join, in page order, of the
\* normalized texts of exactly the pages whose raw text is not blank and
\* whose normalized text is not empty.
C24_JoinOfNonEmptyPages ==
    (ppc = "returned" /\ KeptPages /= {}) =>
        final_text = clean_text_pipeline(JoinOfKeptPages)
\* ------------------------------------------------------------------------
\* The /minedata handler process_file (main.py, lines 91-170), from the point
\* where the request has passed the checks of lines 68-89: it is
\* authenticated and carries a file with a .pdf name
\* ------------------------------------------------------------------------
\* number of requests served
MaxRequests == 2

\* line 108: len(extracted_text) < 50
MinChars == 50

\* the uploaded files: one that does not open, one without pages, the ones
\* of a single page, and one with enough text
Uploads ==
    {d \in Documents : Len(d.pages) <= 1} \cup
    {[opens |-> TRUE,
      pages |-> <<"abcdefghij abcdefghij abcdefghij abcdefghij abcdefghij">>]}

\* return jsonify({'status': ..., 'message': ...}), status; kind names what
\* went wrong
Respond(status, message, kind) ==
    /\ response' = [status |-> status, message |-> message]
    /\ sent' = sent \cup {[kind |-> kind, status |-> status, message |-> message]}
    /\ rpc' = "done"

\* lines 164-170: the except block around the processing
Handler(kind) == Respond(500, "PDF Processing Failed", kind)

\* lines 68-94: a request arrives with a file
Receive ==
    /\ rpc \in {"idle", "done"}
    /\ request_no < MaxRequests
    /\ request_no' = request_no + 1
    /\ worker' \in Threads
    /\ pdf' \in Uploads
    /\ ppc' = "idle"
    /\ page_no' = 0
    /\ output_stream' = ""
    /\ full_text' = <<>>
    /\ final_text' = None
    /\ perr' = None
    /\ response' = NoResponse
    /\ rpc' = "R97"
    /\ UNCHANGED <<raw_folder, sent, dvars, avars, nvars, uvars, lvars>>

\* lines 96-103: file.save(filepath); then line 106 calls process_pdf
R97 ==
    /\ rpc = "R97"
    /\ \/ /\ raw_folder' = raw_folder \cup {request_no}
          /\ rpc' = "R106"
          /\ ppc' = "open"
          /\ UNCHANGED <<response, sent>>
       \/ /\ Respond(500, "File Save Error", "save")
          /\ UNCHANGED <<raw_folder, ppc>>
    /\ UNCHANGED <<worker, request_no, pdf, page_no, output_stream, full_text, final_text,
                   perr, dvars, avars, nvars, uvars, lvars>>

\* lines 106-114: process_pdf is over
R106 ==
    /\ rpc = "R106"
    /\ ppc \in {"returned", "raised"}
    /\ IF ppc = "raised"
       THEN Handler("document")
       ELSE IF final_text = "" \/ Len(final_text) < MinChars
       THEN Respond(422, "Unprocessable Content", "document")
       ELSE rpc' = "R117" /\ UNCHANGED <<response, sent>>
    /\ UNCHANGED <<worker, request_no, raw_folder, dvars, avars, nvars, pvars, uvars, lvars>>

\* line 117: entities = extract_resume_entities(extracted_text, ...)
R117 ==
    /\ rpc = "R117"
    /\ Begin(worker, "minedata", "N41")
    /\ rpc' = "R120"
    /\ UNCHANGED <<worker, request_no, raw_folder, response, sent, dvars, avars, nvars,
                   pvars, uvars, gvars, ckpt, constructed, tokenizers, applied, lastHandle>>

\* lines 120-128: extract_resume_entities is over; look the user up
R120 ==
    /\ rpc = "R120"
    /\ op[worker] = "minedata"
    /\ pc[worker] = "idle"
    /\ IF err[worker] /= None
       THEN Handler("internal")
       ELSE \/ Respond(401, "Unauthorized", "user")
            \/ rpc' = "R149" /\ UNCHANGED <<response, sent>>
    /\ UNCHANGED <<worker, request_no, raw_folder, dvars, avars, nvars, pvars, uvars, lvars>>

\* lines 130-149: read the file (a failure is only logged), store the resume
R149 ==
    /\ rpc = "R149"
    /\ \/ Handler("database")
       \/ rpc' = "R153" /\ UNCHANGED <<response, sent>>
    /\ UNCHANGED <<worker, request_no, raw_folder, dvars, avars, nvars, pvars, uvars, lvars>>

\* lines 151-162: os.remove(filepath), a failure is only logged; answer 200
R153 ==
    /\ rpc = "R153"
    /\ \/ raw_folder' = raw_folder \ {request_no}
       \/ raw_folder' = raw_folder
    /\ Respond(200, "Success", "none")
    /\ UNCHANGED <<worker, request_no, dvars, avars, nvars, pvars, uvars, lvars>>

ServiceNext ==
    \/ Receive \/ R97 \/ OpenPdf \/ ProcessPage \/ FinishPdf \/ R106 \/ R117
    \/ \E t \in Threads : N41(t) \/ N47(t) \/ N55(t) \/ N65(t) \/ N93(t) \/ N171(t)
    \/ R120 \/ R149 \/ R153 \/ SetCheckpoint

ServiceSpec == Init /\ [][ServiceNext]_vars

\* ---- properties of process_file --------------------------------------------
\* C23: a response to a bad input document (process_pdf failed, or gave too
\* little text) never has the status and message of a response to an
\* internal processing failure (the checkpoint is missing, the weights do not
\* load, the inference fails).
C23_FailuresDistinguished ==
    \A a, b \in sent :
        (a.kind = "document" /\ b.kind = "internal") =>
            <<a.status, a.message>> /= <<b.status, b.message>>

\* C29: when a request has been answered, no upload is left in RAW_FOLDER.
C29_UploadRemoved == rpc = "done" => raw_folder = {}
\* ------------------------------------------------------------------------
\* E-mail verification (auth_routes.py, models.py): signup, login,
\* resend-verification and verify-email for one e-mail address. Every request
\* has its own database session; a query reads the committed rows, and the
\* changes of a session reach the tables at its commit.
\* ------------------------------------------------------------------------
\* number of verification codes issued
MaxCodes == 3

\* VerificationCode.generate_code(): two of the 6-digit strings
CodeValues == {"123456", "654321"}

\* the endpoints that issue a verification code
Issuers == {"signup", "login", "resend"}

\* the rows that filter_by(user_id=..., is_used=False) finds
UnusedCodes == {i \in 1..Len(verification_codes) : ~verification_codes[i].is_used}

To(t, l) == session' = [session EXCEPT ![t].pc = l]

\* the request returns its response
Return(t) == session' = [session EXCEPT ![t] = NoSession]

\* a request arrives; a verify-email request carries a code
StartRequest(t) ==
    /\ session[t].pc = "idle"
    /\ \E o \in Issuers \cup {"verify"} :
          /\ o \in Issuers =>
                Len(verification_codes)
                    + Cardinality({u \in Threads : session[u].op \in Issuers}) < MaxCodes
          /\ \E c \in (IF o = "verify" THEN CodeValues ELSE {None}) :
                session' = [session EXCEPT ![t] =
                               [op |-> o, pc |-> "user", code |-> c,
                                old_codes |-> {}, verification |-> 0]]
    /\ UNCHANGED <<user, verification_codes, accepted, dvars, avars, nvars, pvars, svars, lvars>>

\* User.query.filter_by(email=email).first() and the tests on the row:
\* lines 80-83 and 125-131 (signup), 197-210 (verify-email), 287-295 and
\* 351-361 (login, which also returns on a wrong password), 387-400 (resend)
ReadUser(t) ==
    /\ session[t].pc = "user"
    /\ CASE session[t].op = "signup" ->
              IF user = "absent" THEN To(t, "create")
              ELSE IF user = "unverified" THEN To(t, "old_codes")
              ELSE Return(t)
         [] session[t].op = "login" ->
              \/ Return(t)
              \/ user = "unverified" /\ To(t, "old_codes")
         [] session[t].op = "resend" ->
              IF user = "unverified" THEN To(t, "old_codes") ELSE Return(t)
         [] session[t].op = "verify" ->
              IF user = "unverified" THEN To(t, "find") ELSE Return(t)
    /\ UNCHANGED <<user, verification_codes, accepted, dvars, avars, nvars, pvars, svars, lvars>>

\* lines 134-141: the users row is inserted and committed; the e-mail column
\* is unique, so the insert fails when the row has appeared meanwhile
CreateUser(t) ==
    /\ session[t].pc = "create"
    /\ IF user = "absent"
       THEN user' = "unverified" /\ To(t, "issue")
       ELSE user' = user /\ Return(t)
    /\ UNCHANGED <<verification_codes, accepted, dvars, avars, nvars, pvars, svars, lvars>>

\* lines 90-94, 299-303, 403-407: old_codes = ...filter_by(is_used=False).all()
ReadOldCodes(t) ==
    /\ session[t].pc = "old_codes"
    /\ session' = [session EXCEPT ![t].old_codes = UnusedCodes, ![t].pc = "issue"]
    /\ UNCHANGED <<user, verification_codes, accepted, dvars, avars, nvars, pvars, svars, lvars>>

\* lines 96-102, 144-146, 305-311, 409-415: the rows of old_codes are marked
\* used, the new code is added, and the session is committed
IssueCode(t) ==
    /\ session[t].pc = "issue"
    /\ \E c \in CodeValues :
          verification_codes' =
              Append([i \in 1..Len(verification_codes) |->
                         IF i \in session[t].old_codes
                         THEN [verification_codes[i] EXCEPT !.is_used = TRUE]
                         ELSE verification_codes[i]],
                     [code |-> c, is_used |-> FALSE, expired |-> FALSE])
    /\ Return(t)
    /\ UNCHANGED <<user, accepted, dvars, avars, nvars, pvars, svars, lvars>>

\* lines 213-238: a row with the submitted code is looked up (first() of a
\* query without an order) and is_valid() is asked of it
FindCode(t) ==
    /\ session[t].pc = "find"
    /\ LET matching == {i \in 1..Len(verification_codes) :
                           verification_codes[i].code = session[t].code}
       IN  IF matching = {} THEN Return(t)
           ELSE \E i \in matching :
                   IF verification_codes[i].is_used \/ verification_codes[i].expired
                   THEN Return(t)
                   ELSE session' = [session EXCEPT ![t].verification = i, ![t].pc = "commit"]
    /\ UNCHANGED <<user, verification_codes, accepted, dvars, avars, nvars, pvars, svars, lvars>>

\* lines 241-258: user.is_verified = True; verification.mark_as_used(); 200
MarkVerified(t) ==
    /\ session[t].pc = "commit"
    /\ user' = "verified"
    /\ verification_codes' =
           [verification_codes EXCEPT ![session[t].verification].is_used = TRUE]
    /\ accepted' = Append(accepted, session[t].verification)
    /\ Return(t)
    /\ UNCHANGED <<dvars, avars, nvars, pvars, svars, lvars>>

\* models.py, lines 90 and 97-99: time passes and the oldest code that has
\* not expired does
Expire ==
    /\ \E i \in 1..Len(verification_codes) :
          /\ ~verification_codes[i].expired
          /\ \A j \in 1..(i - 1) : verification_codes[j].expired
          /\ verification_codes' = [verification_codes EXCEPT ![i].expired = TRUE]
    /\ UNCHANGED <<user, session, accepted, dvars, avars, nvars, pvars, svars, lvars>>

AuthNext ==
    \/ \E t \in Threads :
          \/ StartRequest(t) \/ ReadUser(t) \/ CreateUser(t) \/ ReadOldCodes(t)
          \/ IssueCode(t) \/ FindCode(t) \/ MarkVerified(t)
    \/ Expire

AuthSpec == Init /\ [][AuthNext]_vars

\* ---- properties of the e-mail verification ---------------------------------
\* C30: under every interleaving of the requests the user has at most one
\* unused verification code, verify-email accepts a code at most once, and
\* the user becomes verified only through a row that carries the submitted
\* code, was neither used nor expired when it was looked up, and is still
\* unused.
C30_OneUnusedCode ==
    [][ /\ Cardinality(UnusedCodes') <= 1
        /\ \A i, j \in 1..Len(accepted') : accepted'[i] = accepted'[j] => i = j
        /\ \A t \in Threads :
              (session[t].pc = "find" /\ session'[t].pc = "commit") =>
                  LET row == verification_codes[session'[t].verification]
                  IN  row.code = session[t].code /\ ~row.is_used /\ ~row.expired
        /\ (user = "unverified" /\ user' = "verified") =>
              \E t \in Threads :
                 /\ session[t].pc = "commit"
                 /\ session'[t].pc = "idle"
                 /\ verification_codes[session[t].verification].code = session[t].code
                 /\ ~verification_codes[session[t].verification].is_used ]_vars
====
